---- MODULE Spec2Model ----
(***************************************************************************)
(* A model of the two ARED pallets: telemetry-proofs (the proof ledger and *)
(* its unsigned-transaction validation) and carbon-credits (the energy to  *)
(* credit accounting).  Every dispatchable is one action; its body is a    *)
(* function from the storage before the call to the storage, the result    *)
(* and the events after it, translated from the Rust source.               *)
(***************************************************************************)
EXTENDS Integers, Sequences, FiniteSets, TLC

(***************************************************************************)
(* Configuration of the pallets (Config trait items).  The length bounds   *)
(* are the runtime's; the batch size and the per-device cap are            *)
(* instantiated small so that the caps are reached.                        *)
(***************************************************************************)
MaxDeviceIdLength == 64
MaxProofLength == 128
MaxBatchSize == 3
MaxProofsPerDevice == 2
MILLISECS_PER_BLOCK == 6000

CreditsPerTonCO2 == 1000
DefaultEmissionFactor == 1500
MinClaimableEnergy == 1000

\* Bounds of the exploration.  U128Max stands for u128::MAX: the width is
\* scaled down so that saturation is reached, and every u128 operation
\* saturates at it exactly as the code's does at 2^128 - 1.  U32Max stands
\* for u32::MAX in the same way.
MaxBlock == 2
MaxRecords == 2
U128Max == 16383
U32Max == 2047

(***************************************************************************)
(* Inputs.  Identifiers are byte vectors (Vec<u8>); an over-long one has   *)
(* one byte more than the bound.                                           *)
(***************************************************************************)
Bytes(n, b) == [i \in 1..n |-> b]
DevA == <<65>>
DevB == <<66>>
DevLong == Bytes(MaxDeviceIdLength + 1, 97)
HashX == <<120>>
HashY == <<121>>
HashLong == Bytes(MaxProofLength + 1, 104)

Signed(who) == [kind |-> "signed", who |-> who]
NoneOrigin == [kind |-> "none", who |-> 0]
RootOrigin == [kind |-> "root", who |-> 0]
Accounts == {1, 2}

\* An entry of a batch: (device_id, proof_hash, record_count, window_start, window_end).
Entry(d, h, rc, ws, we) == <<d, h, rc, ws, we>>

\* Single submissions: two valid payloads (hash and window) for each device,
\* and entries that break one rule, or all of them.
Devices == {DevA, DevB}
SingleDevices == Devices \cup {DevLong}
SingleEntries ==
    { Entry(d, p[1], 10, p[2], p[3]) :
        d \in Devices, p \in {<<HashX, 1000, 2000>>, <<HashY, 2000, 3000>>} }
    \cup { Entry(DevA, HashX, 10, 2000, 2000),
           Entry(DevA, HashY, 10, 3000, 2000),
           Entry(DevLong, HashX, 10, 1000, 2000),
           Entry(DevB, HashLong, 10, 1000, 2000),
           Entry(DevLong, HashLong, 10, 2000, 2000) }

\* Batch entries: three valid ones (two of them for the same device) and one
\* for each reason an entry is skipped on its own.
BatchEntries ==
    { Entry(DevA, HashX, 10, 1000, 2000),
      Entry(DevA, HashY, 10, 2000, 3000),
      Entry(DevB, HashX, 10, 1000, 2000),
      Entry(DevB, HashY, 10, 2000, 2000),
      Entry(DevLong, HashX, 10, 1000, 2000),
      Entry(DevB, HashLong, 10, 1000, 2000) }

SeqsUpTo(S, n) == UNION {[1..k -> S] : k \in 0..n}
\* Batches of every length below the limit, batches of the full length (a
\* first and a last entry that are stored, with an entry between them that is
\* skipped as a duplicate or for its window), and a batch one entry too long.
FullBatches ==
    { es \in [1..MaxBatchSize -> BatchEntries] :
        /\ es[1] = Entry(DevA, HashX, 10, 1000, 2000)
        /\ es[MaxBatchSize] = Entry(DevB, HashX, 10, 1000, 2000)
        /\ \A i \in 2..(MaxBatchSize - 1) :
              es[i] \in {Entry(DevA, HashY, 10, 2000, 3000), Entry(DevB, HashY, 10, 2000, 2000)} }
AdmissibleBatches ==
    {es \in SeqsUpTo(BatchEntries, MaxBatchSize - 1) : Len(es) > 0} \cup FullBatches
OverlongBatches ==
    [1..(MaxBatchSize + 1) -> {Entry(DevA, HashX, 10, 1000, 2000)}]
Batches == {<<>>} \cup AdmissibleBatches \cup OverlongBatches

(***************************************************************************)
(* State.  The storage items keep their names.  block_number and timestamp *)
(* are frame_system's and pallet_timestamp's; op, result and events record *)
(* the last call, what it returned and the events it deposited; returned   *)
(* holds the value of the last read-only query, and is empty after a call. *)
(***************************************************************************)
VARIABLES
    block_number, timestamp,
    Proofs, ProofsByBlock, ProofCount, TotalProofs, LatestProofBlock,
    EmissionFactor, EnergyAccumulated, TotalEnergy, CreditsBalance, AccountCredits,
    TotalCreditsIssued, TotalCO2Avoided, IssuanceCount, ActiveDeviceCount,
    seen, budget, claimed,
    op, result, events, returned

ledgerVars == <<Proofs, ProofsByBlock, ProofCount, TotalProofs, LatestProofBlock>>
creditVars == <<EmissionFactor, EnergyAccumulated, TotalEnergy, CreditsBalance,
                AccountCredits, TotalCreditsIssued, TotalCO2Avoided, IssuanceCount,
                ActiveDeviceCount, seen, budget, claimed>>
vars == <<block_number, timestamp, Proofs, ProofsByBlock, ProofCount, TotalProofs,
          LatestProofBlock, EmissionFactor, EnergyAccumulated, TotalEnergy,
          CreditsBalance, AccountCredits, TotalCreditsIssued, TotalCO2Avoided,
          IssuanceCount, ActiveDeviceCount, seen, budget, claimed, op, result,
          events, returned>>

\* Storage maps: a finite function from the keys written so far.
Get(m, k, default) == IF k \in DOMAIN m THEN m[k] ELSE default
Put(m, k, v) == [x \in (DOMAIN m) \cup {k} |-> IF x = k THEN v ELSE m[x]]
EmptyMap == [x \in {} |-> 0]
\* A ValueQuery map of numbers reads 0 at every key never written: it is kept
\* as the function that is 0 there.
ZeroMap(keys) == [x \in keys |-> 0]

\* The ledger's storage as one value.
Ledger ==
    [Proofs |-> Proofs, ProofsByBlock |-> ProofsByBlock, ProofCount |-> ProofCount,
     TotalProofs |-> TotalProofs, LatestProofBlock |-> LatestProofBlock]

ProofMetadata(proof_hash, b, ts, record_count, window_start, window_end) ==
    [proof_hash |-> proof_hash, block_number |-> b, timestamp |-> ts,
     record_count |-> record_count, window_start |-> window_start,
     window_end |-> window_end]

ProofSubmitted(device_id, proof_hash, b, proof_index) ==
    [event |-> "ProofSubmitted", device_id |-> device_id, proof_hash |-> proof_hash,
     block_number |-> b, proof_index |-> proof_index]

Outcome(S, r, ev) == [store |-> S, result |-> r, events |-> ev]
\* A failed dispatch leaves the storage as it was and deposits nothing.
Err(S, e) == Outcome(S, e, <<>>)

(***************************************************************************)
(* submit_proof                                                            *)
(***************************************************************************)
\* A faulty variant: the record goes to the device's first slot.
submit_proof_store_first_slot(S, b, ts, device_id, proof_hash, record_count, window_start, window_end, current_count) ==
    [Proofs |-> Put(S.Proofs, <<device_id, 0>>,
                    ProofMetadata(proof_hash, b, ts, record_count, window_start,
                                  window_end)),
     ProofsByBlock |-> Put(S.ProofsByBlock, <<b, device_id>>, proof_hash),
     ProofCount |-> Put(S.ProofCount, device_id, Get(S.ProofCount, device_id, 0) + 1),
     TotalProofs |-> S.TotalProofs + 1,
     LatestProofBlock |-> Put(S.LatestProofBlock, device_id, b)]

\* A faulty variant: the latest block is recorded for a device's first proof only.
submit_proof_store_first_block(S, b, ts, device_id, proof_hash, record_count, window_start, window_end, current_count) ==
    [Proofs |-> Put(S.Proofs, <<device_id, current_count>>,
                    ProofMetadata(proof_hash, b, ts, record_count, window_start,
                                  window_end)),
     ProofsByBlock |-> Put(S.ProofsByBlock, <<b, device_id>>, proof_hash),
     ProofCount |-> Put(S.ProofCount, device_id, Get(S.ProofCount, device_id, 0) + 1),
     TotalProofs |-> S.TotalProofs + 1,
     LatestProofBlock |-> IF device_id \in DOMAIN S.LatestProofBlock
                          THEN S.LatestProofBlock
                          ELSE Put(S.LatestProofBlock, device_id, b)]

\* A faulty variant: the global total is set from the device's own count.
submit_proof_store_total_from_count(S, b, ts, device_id, proof_hash, record_count, window_start, window_end, current_count) ==
    [Proofs |-> Put(S.Proofs, <<device_id, current_count>>,
                    ProofMetadata(proof_hash, b, ts, record_count, window_start,
                                  window_end)),
     ProofsByBlock |-> Put(S.ProofsByBlock, <<b, device_id>>, proof_hash),
     ProofCount |-> Put(S.ProofCount, device_id, Get(S.ProofCount, device_id, 0) + 1),
     TotalProofs |-> current_count + 1,
     LatestProofBlock |-> Put(S.LatestProofBlock, device_id, b)]

\* A faulty variant: the record goes one slot past the device's count.
submit_proof_store_skips_slot(S, b, ts, device_id, proof_hash, record_count, window_start, window_end, current_count) ==
    [Proofs |-> Put(S.Proofs, <<device_id, current_count + 1>>,
                    ProofMetadata(proof_hash, b, ts, record_count, window_start,
                                  window_end)),
     ProofsByBlock |-> Put(S.ProofsByBlock, <<b, device_id>>, proof_hash),
     ProofCount |-> Put(S.ProofCount, device_id, Get(S.ProofCount, device_id, 0) + 1),
     TotalProofs |-> S.TotalProofs + 1,
     LatestProofBlock |-> Put(S.LatestProofBlock, device_id, b)]

submit_proof_store(S, b, ts, device_id, proof_hash, record_count, window_start, window_end, current_count) ==
    [Proofs |-> Put(S.Proofs, <<device_id, current_count>>,
                    ProofMetadata(proof_hash, b, ts, record_count, window_start,
                                  window_end)),
     ProofsByBlock |-> Put(S.ProofsByBlock, <<b, device_id>>, proof_hash),
     ProofCount |-> Put(S.ProofCount, device_id, Get(S.ProofCount, device_id, 0) + 1),
     TotalProofs |-> S.TotalProofs + 1,
     LatestProofBlock |-> Put(S.LatestProofBlock, device_id, b)]

\* Faulty variants of submit_proof_call, which the properties of submit_proof
\* must tell from it.  The first takes a proof for a duplicate only when the
\* stored hash is the submitted one.
submit_proof_call_same_hash(S, b, ts, origin, device_id, proof_hash, record_count, window_start, window_end) ==
    IF origin.kind # "signed" THEN Err(S, "BadOrigin")
    ELSE IF ~(window_start < window_end) THEN Err(S, "InvalidTimeWindow")
    ELSE IF Len(device_id) > MaxDeviceIdLength THEN Err(S, "DeviceIdTooLong")
    ELSE IF Len(proof_hash) > MaxProofLength THEN Err(S, "ProofTooLong")
    ELSE LET current_count == Get(S.ProofCount, device_id, 0) IN
         IF ~(current_count < MaxProofsPerDevice) THEN Err(S, "MaxProofsExceeded")
         ELSE IF /\ <<b, device_id>> \in DOMAIN S.ProofsByBlock
                 /\ S.ProofsByBlock[<<b, device_id>>] = proof_hash
              THEN Err(S, "ProofAlreadyExists")
         ELSE Outcome(submit_proof_store(S, b, ts, device_id, proof_hash, record_count,
                                         window_start, window_end, current_count),
                      "Ok",
                      <<ProofSubmitted(device_id, proof_hash, b, current_count)>>)

\* The third lets a device at the cap store one more proof.
submit_proof_call_cap_inclusive(S, b, ts, origin, device_id, proof_hash, record_count, window_start, window_end) ==
    IF origin.kind # "signed" THEN Err(S, "BadOrigin")
    ELSE IF ~(window_start < window_end) THEN Err(S, "InvalidTimeWindow")
    ELSE IF Len(device_id) > MaxDeviceIdLength THEN Err(S, "DeviceIdTooLong")
    ELSE IF Len(proof_hash) > MaxProofLength THEN Err(S, "ProofTooLong")
    ELSE LET current_count == Get(S.ProofCount, device_id, 0) IN
         IF ~(current_count <= MaxProofsPerDevice) THEN Err(S, "MaxProofsExceeded")
         ELSE IF <<b, device_id>> \in DOMAIN S.ProofsByBlock
              THEN Err(S, "ProofAlreadyExists")
         ELSE Outcome(submit_proof_store(S, b, ts, device_id, proof_hash, record_count,
                                         window_start, window_end, current_count),
                      "Ok",
                      <<ProofSubmitted(device_id, proof_hash, b, current_count)>>)

\* The second counts the proof before the duplicate check and keeps the count
\* when the check fails.
submit_proof_call_counts_first(S, b, ts, origin, device_id, proof_hash, record_count, window_start, window_end) ==
    IF origin.kind # "signed" THEN Err(S, "BadOrigin")
    ELSE IF ~(window_start < window_end) THEN Err(S, "InvalidTimeWindow")
    ELSE IF Len(device_id) > MaxDeviceIdLength THEN Err(S, "DeviceIdTooLong")
    ELSE IF Len(proof_hash) > MaxProofLength THEN Err(S, "ProofTooLong")
    ELSE LET current_count == Get(S.ProofCount, device_id, 0) IN
         IF ~(current_count < MaxProofsPerDevice) THEN Err(S, "MaxProofsExceeded")
         ELSE IF <<b, device_id>> \in DOMAIN S.ProofsByBlock
              THEN Err([S EXCEPT !.TotalProofs = @ + 1], "ProofAlreadyExists")
         ELSE Outcome(submit_proof_store(S, b, ts, device_id, proof_hash, record_count,
                                         window_start, window_end, current_count),
                      "Ok",
                      <<ProofSubmitted(device_id, proof_hash, b, current_count)>>)

\* The fourth looks for a record at the current block before it looks at the
\* device's count.
submit_proof_call_duplicate_first(S, b, ts, origin, device_id, proof_hash, record_count, window_start, window_end) ==
    IF origin.kind # "signed" THEN Err(S, "BadOrigin")
    ELSE IF ~(window_start < window_end) THEN Err(S, "InvalidTimeWindow")
    ELSE IF Len(device_id) > MaxDeviceIdLength THEN Err(S, "DeviceIdTooLong")
    ELSE IF Len(proof_hash) > MaxProofLength THEN Err(S, "ProofTooLong")
    ELSE LET current_count == Get(S.ProofCount, device_id, 0) IN
         IF <<b, device_id>> \in DOMAIN S.ProofsByBlock THEN Err(S, "ProofAlreadyExists")
         ELSE IF ~(current_count < MaxProofsPerDevice) THEN Err(S, "MaxProofsExceeded")
         ELSE Outcome(submit_proof_store(S, b, ts, device_id, proof_hash, record_count,
                                         window_start, window_end, current_count),
                      "Ok",
                      <<ProofSubmitted(device_id, proof_hash, b, current_count)>>)

submit_proof_call(S, b, ts, origin, device_id, proof_hash, record_count, window_start, window_end) ==
    IF origin.kind # "signed" THEN Err(S, "BadOrigin")
    ELSE IF ~(window_start < window_end) THEN Err(S, "InvalidTimeWindow")
    ELSE IF Len(device_id) > MaxDeviceIdLength THEN Err(S, "DeviceIdTooLong")
    ELSE IF Len(proof_hash) > MaxProofLength THEN Err(S, "ProofTooLong")
    ELSE LET current_count == Get(S.ProofCount, device_id, 0) IN
         IF ~(current_count < MaxProofsPerDevice) THEN Err(S, "MaxProofsExceeded")
         ELSE IF <<b, device_id>> \in DOMAIN S.ProofsByBlock
              THEN Err(S, "ProofAlreadyExists")
         ELSE Outcome(submit_proof_store(S, b, ts, device_id, proof_hash, record_count,
                                         window_start, window_end, current_count),
                      "Ok",
                      <<ProofSubmitted(device_id, proof_hash, b, current_count)>>)

\* A call's outcome becomes the next state.
CommitLedger(name, out) ==
    /\ Proofs' = out.store.Proofs
    /\ ProofsByBlock' = out.store.ProofsByBlock
    /\ ProofCount' = out.store.ProofCount
    /\ TotalProofs' = out.store.TotalProofs
    /\ LatestProofBlock' = out.store.LatestProofBlock
    /\ op' = name
    /\ result' = out.result
    /\ returned' = <<>>
    /\ events' = out.events
    /\ UNCHANGED <<block_number, timestamp>>
    /\ UNCHANGED creditVars

submit_proof(origin, device_id, proof_hash, record_count, window_start, window_end) ==
    CommitLedger("submit_proof",
           submit_proof_call(Ledger, block_number, timestamp, origin, device_id,
                             proof_hash, record_count, window_start, window_end))

(***************************************************************************)
(* submit_batch_proofs: the loop body for one entry, the loop, the call.   *)
(* acc is the storage and the events deposited so far in the call.         *)
(***************************************************************************)
BatchProofsSubmitted(submitter, proof_count, b) ==
    [event |-> "BatchProofsSubmitted", submitter |-> submitter,
     proof_count |-> proof_count, block_number |-> b]

\* Faulty variants of the loop body.  The first looks for a duplicate in the
\* storage as it was when the call began, not as the earlier entries left it.
submit_batch_proofs_entry_stale(acc, b, ts, e) ==
    LET device_id == e[1]
        proof_hash == e[2]
        record_count == e[3]
        window_start == e[4]
        window_end == e[5]
        S == acc.store
        current_count == Get(S.ProofCount, device_id, 0)
    IN  IF window_start >= window_end THEN acc
        ELSE IF Len(device_id) > MaxDeviceIdLength THEN acc
        ELSE IF Len(proof_hash) > MaxProofLength THEN acc
        ELSE IF current_count >= MaxProofsPerDevice THEN acc
        ELSE IF <<b, device_id>> \in DOMAIN ProofsByBlock THEN acc
        ELSE [store |->
                [Proofs |-> Put(S.Proofs, <<device_id, current_count>>,
                                ProofMetadata(proof_hash, b, ts, record_count,
                                              window_start, window_end)),
                 ProofsByBlock |-> Put(S.ProofsByBlock, <<b, device_id>>, proof_hash),
                 ProofCount |-> Put(S.ProofCount, device_id, current_count + 1),
                 TotalProofs |-> S.TotalProofs + 1,
                 LatestProofBlock |-> Put(S.LatestProofBlock, device_id, b)],
              events |-> Append(acc.events,
                                ProofSubmitted(device_id, proof_hash, b, current_count))]

\* The second lets an empty window (window_start = window_end) through.
submit_batch_proofs_entry_empty_window(acc, b, ts, e) ==
    LET device_id == e[1]
        proof_hash == e[2]
        record_count == e[3]
        window_start == e[4]
        window_end == e[5]
        S == acc.store
        current_count == Get(S.ProofCount, device_id, 0)
    IN  IF window_start > window_end THEN acc
        ELSE IF Len(device_id) > MaxDeviceIdLength THEN acc
        ELSE IF Len(proof_hash) > MaxProofLength THEN acc
        ELSE IF current_count >= MaxProofsPerDevice THEN acc
        ELSE IF <<b, device_id>> \in DOMAIN S.ProofsByBlock THEN acc
        ELSE [store |->
                [Proofs |-> Put(S.Proofs, <<device_id, current_count>>,
                                ProofMetadata(proof_hash, b, ts, record_count,
                                              window_start, window_end)),
                 ProofsByBlock |-> Put(S.ProofsByBlock, <<b, device_id>>, proof_hash),
                 ProofCount |-> Put(S.ProofCount, device_id, current_count + 1),
                 TotalProofs |-> S.TotalProofs + 1,
                 LatestProofBlock |-> Put(S.LatestProofBlock, device_id, b)],
              events |-> Append(acc.events,
                                ProofSubmitted(device_id, proof_hash, b, current_count))]

submit_batch_proofs_entry(acc, b, ts, e) ==
    LET device_id == e[1]
        proof_hash == e[2]
        record_count == e[3]
        window_start == e[4]
        window_end == e[5]
        S == acc.store
        current_count == Get(S.ProofCount, device_id, 0)
    IN  IF window_start >= window_end THEN acc
        ELSE IF Len(device_id) > MaxDeviceIdLength THEN acc
        ELSE IF Len(proof_hash) > MaxProofLength THEN acc
        ELSE IF current_count >= MaxProofsPerDevice THEN acc
        ELSE IF <<b, device_id>> \in DOMAIN S.ProofsByBlock THEN acc
        ELSE [store |->
                [Proofs |-> Put(S.Proofs, <<device_id, current_count>>,
                                ProofMetadata(proof_hash, b, ts, record_count,
                                              window_start, window_end)),
                 ProofsByBlock |-> Put(S.ProofsByBlock, <<b, device_id>>, proof_hash),
                 ProofCount |-> Put(S.ProofCount, device_id, current_count + 1),
                 TotalProofs |-> S.TotalProofs + 1,
                 LatestProofBlock |-> Put(S.LatestProofBlock, device_id, b)],
              events |-> Append(acc.events,
                                ProofSubmitted(device_id, proof_hash, b, current_count))]

RECURSIVE submit_batch_proofs_loop(_, _, _, _, _)
submit_batch_proofs_loop(acc, b, ts, proofs, i) ==
    IF i > Len(proofs) THEN acc
    ELSE submit_batch_proofs_loop(submit_batch_proofs_entry(acc, b, ts, proofs[i]),
                                  b, ts, proofs, i + 1)

\* A faulty variant: the size limit is exclusive.
submit_batch_proofs_call_exclusive_limit(S, b, ts, origin, proofs) ==
    LET batch_len == Len(proofs) IN
    IF origin.kind # "signed" THEN Err(S, "BadOrigin")
    ELSE IF ~(batch_len > 0) THEN Err(S, "EmptyBatch")
    ELSE IF ~(batch_len < MaxBatchSize) THEN Err(S, "BatchTooLarge")
    ELSE LET acc == submit_batch_proofs_loop([store |-> S, events |-> <<>>],
                                             b, ts, proofs, 1)
         IN  Outcome(acc.store, "Ok",
                     Append(acc.events, BatchProofsSubmitted(origin.who, batch_len, b)))

submit_batch_proofs_call(S, b, ts, origin, proofs) ==
    LET batch_len == Len(proofs) IN
    IF origin.kind # "signed" THEN Err(S, "BadOrigin")
    ELSE IF ~(batch_len > 0) THEN Err(S, "EmptyBatch")
    ELSE IF ~(batch_len <= MaxBatchSize) THEN Err(S, "BatchTooLarge")
    ELSE LET acc == submit_batch_proofs_loop([store |-> S, events |-> <<>>],
                                             b, ts, proofs, 1)
         IN  Outcome(acc.store, "Ok",
                     Append(acc.events, BatchProofsSubmitted(origin.who, batch_len, b)))

submit_batch_proofs(origin, proofs) ==
    CommitLedger("submit_batch_proofs",
           submit_batch_proofs_call(Ledger, block_number, timestamp, origin, proofs))

(***************************************************************************)
(* submit_proof_unsigned                                                   *)
(***************************************************************************)
\* A faulty variant: no duplicate check.
submit_proof_unsigned_call_no_duplicate_check(S, b, ts, origin, device_id, proof_hash, record_count, window_start, window_end) ==
    IF origin.kind # "none" THEN Err(S, "BadOrigin")
    ELSE IF ~(window_start < window_end) THEN Err(S, "InvalidTimeWindow")
    ELSE IF Len(device_id) > MaxDeviceIdLength THEN Err(S, "DeviceIdTooLong")
    ELSE IF Len(proof_hash) > MaxProofLength THEN Err(S, "ProofTooLong")
    ELSE LET current_count == Get(S.ProofCount, device_id, 0) IN
         IF ~(current_count < MaxProofsPerDevice) THEN Err(S, "MaxProofsExceeded")
         ELSE Outcome(
                [Proofs |-> Put(S.Proofs, <<device_id, current_count>>,
                                ProofMetadata(proof_hash, b, ts, record_count,
                                              window_start, window_end)),
                 ProofsByBlock |-> Put(S.ProofsByBlock, <<b, device_id>>, proof_hash),
                 ProofCount |-> Put(S.ProofCount, device_id,
                                    Get(S.ProofCount, device_id, 0) + 1),
                 TotalProofs |-> S.TotalProofs + 1,
                 LatestProofBlock |-> Put(S.LatestProofBlock, device_id, b)],
                "Ok",
                <<ProofSubmitted(device_id, proof_hash, b, current_count)>>)

\* A faulty variant: the device's count is not compared with the cap.
submit_proof_unsigned_call_no_cap_check(S, b, ts, origin, device_id, proof_hash, record_count, window_start, window_end) ==
    IF origin.kind # "none" THEN Err(S, "BadOrigin")
    ELSE IF ~(window_start < window_end) THEN Err(S, "InvalidTimeWindow")
    ELSE IF Len(device_id) > MaxDeviceIdLength THEN Err(S, "DeviceIdTooLong")
    ELSE IF Len(proof_hash) > MaxProofLength THEN Err(S, "ProofTooLong")
    ELSE LET current_count == Get(S.ProofCount, device_id, 0) IN
         IF <<b, device_id>> \in DOMAIN S.ProofsByBlock
         THEN Err(S, "ProofAlreadyExists")
         ELSE Outcome(
                [Proofs |-> Put(S.Proofs, <<device_id, current_count>>,
                                ProofMetadata(proof_hash, b, ts, record_count,
                                              window_start, window_end)),
                 ProofsByBlock |-> Put(S.ProofsByBlock, <<b, device_id>>, proof_hash),
                 ProofCount |-> Put(S.ProofCount, device_id,
                                    Get(S.ProofCount, device_id, 0) + 1),
                 TotalProofs |-> S.TotalProofs + 1,
                 LatestProofBlock |-> Put(S.LatestProofBlock, device_id, b)],
                "Ok",
                <<ProofSubmitted(device_id, proof_hash, b, current_count)>>)

submit_proof_unsigned_call(S, b, ts, origin, device_id, proof_hash, record_count, window_start, window_end) ==
    IF origin.kind # "none" THEN Err(S, "BadOrigin")
    ELSE IF ~(window_start < window_end) THEN Err(S, "InvalidTimeWindow")
    ELSE IF Len(device_id) > MaxDeviceIdLength THEN Err(S, "DeviceIdTooLong")
    ELSE IF Len(proof_hash) > MaxProofLength THEN Err(S, "ProofTooLong")
    ELSE LET current_count == Get(S.ProofCount, device_id, 0) IN
         IF ~(current_count < MaxProofsPerDevice) THEN Err(S, "MaxProofsExceeded")
         ELSE IF <<b, device_id>> \in DOMAIN S.ProofsByBlock
              THEN Err(S, "ProofAlreadyExists")
         ELSE Outcome(
                [Proofs |-> Put(S.Proofs, <<device_id, current_count>>,
                                ProofMetadata(proof_hash, b, ts, record_count,
                                              window_start, window_end)),
                 ProofsByBlock |-> Put(S.ProofsByBlock, <<b, device_id>>, proof_hash),
                 ProofCount |-> Put(S.ProofCount, device_id,
                                    Get(S.ProofCount, device_id, 0) + 1),
                 TotalProofs |-> S.TotalProofs + 1,
                 LatestProofBlock |-> Put(S.LatestProofBlock, device_id, b)],
                "Ok",
                <<ProofSubmitted(device_id, proof_hash, b, current_count)>>)

submit_proof_unsigned(origin, device_id, proof_hash, record_count, window_start, window_end) ==
    CommitLedger("submit_proof_unsigned",
           submit_proof_unsigned_call(Ledger, block_number, timestamp, origin, device_id,
                                      proof_hash, record_count, window_start, window_end))

(***************************************************************************)
(* submit_batch_proofs_unsigned.  acc also carries successful_count.       *)
(***************************************************************************)
UnsignedBatchProofsSubmitted(proof_count, b) ==
    [event |-> "UnsignedBatchProofsSubmitted", proof_count |-> proof_count,
     block_number |-> b]

\* A faulty variant of the loop body: an empty window (window_start =
\* window_end) is let through.
submit_batch_proofs_unsigned_entry_empty_window(acc, b, ts, e) ==
    LET device_id == e[1]
        proof_hash == e[2]
        record_count == e[3]
        window_start == e[4]
        window_end == e[5]
        S == acc.store
        current_count == Get(S.ProofCount, device_id, 0)
    IN  IF window_start > window_end THEN acc
        ELSE IF Len(device_id) > MaxDeviceIdLength THEN acc
        ELSE IF Len(proof_hash) > MaxProofLength THEN acc
        ELSE IF current_count >= MaxProofsPerDevice THEN acc
        ELSE IF <<b, device_id>> \in DOMAIN S.ProofsByBlock THEN acc
        ELSE [store |->
                [Proofs |-> Put(S.Proofs, <<device_id, current_count>>,
                                ProofMetadata(proof_hash, b, ts, record_count,
                                              window_start, window_end)),
                 ProofsByBlock |-> Put(S.ProofsByBlock, <<b, device_id>>, proof_hash),
                 ProofCount |-> Put(S.ProofCount, device_id, current_count + 1),
                 TotalProofs |-> S.TotalProofs + 1,
                 LatestProofBlock |-> Put(S.LatestProofBlock, device_id, b)],
              events |-> Append(acc.events,
                                ProofSubmitted(device_id, proof_hash, b, current_count)),
              successful_count |-> acc.successful_count + 1]

submit_batch_proofs_unsigned_entry(acc, b, ts, e) ==
    LET device_id == e[1]
        proof_hash == e[2]
        record_count == e[3]
        window_start == e[4]
        window_end == e[5]
        S == acc.store
        current_count == Get(S.ProofCount, device_id, 0)
    IN  IF window_start >= window_end THEN acc
        ELSE IF Len(device_id) > MaxDeviceIdLength THEN acc
        ELSE IF Len(proof_hash) > MaxProofLength THEN acc
        ELSE IF current_count >= MaxProofsPerDevice THEN acc
        ELSE IF <<b, device_id>> \in DOMAIN S.ProofsByBlock THEN acc
        ELSE [store |->
                [Proofs |-> Put(S.Proofs, <<device_id, current_count>>,
                                ProofMetadata(proof_hash, b, ts, record_count,
                                              window_start, window_end)),
                 ProofsByBlock |-> Put(S.ProofsByBlock, <<b, device_id>>, proof_hash),
                 ProofCount |-> Put(S.ProofCount, device_id, current_count + 1),
                 TotalProofs |-> S.TotalProofs + 1,
                 LatestProofBlock |-> Put(S.LatestProofBlock, device_id, b)],
              events |-> Append(acc.events,
                                ProofSubmitted(device_id, proof_hash, b, current_count)),
              successful_count |-> acc.successful_count + 1]

RECURSIVE submit_batch_proofs_unsigned_loop(_, _, _, _, _)
submit_batch_proofs_unsigned_loop(acc, b, ts, proofs, i) ==
    IF i > Len(proofs) THEN acc
    ELSE submit_batch_proofs_unsigned_loop(
             submit_batch_proofs_unsigned_entry(acc, b, ts, proofs[i]),
             b, ts, proofs, i + 1)

submit_batch_proofs_unsigned_call(S, b, ts, origin, proofs) ==
    LET batch_len == Len(proofs) IN
    IF origin.kind # "none" THEN Err(S, "BadOrigin")
    ELSE IF ~(batch_len > 0) THEN Err(S, "EmptyBatch")
    ELSE IF ~(batch_len <= MaxBatchSize) THEN Err(S, "BatchTooLarge")
    ELSE LET acc == submit_batch_proofs_unsigned_loop(
                        [store |-> S, events |-> <<>>, successful_count |-> 0],
                        b, ts, proofs, 1)
         IN  Outcome(acc.store, "Ok",
                     Append(acc.events,
                            UnsignedBatchProofsSubmitted(acc.successful_count, b)))

submit_batch_proofs_unsigned(origin, proofs) ==
    CommitLedger("submit_batch_proofs_unsigned",
           submit_batch_proofs_unsigned_call(Ledger, block_number, timestamp, origin,
                                             proofs))

(***************************************************************************)
(* carbon-credits.  u128 arithmetic: saturating at U128Max.                *)
(***************************************************************************)
\* A faulty variant: the sum wraps around at the width of the integer.
wrapping_add(a, b) == (a + b) % (U128Max + 1)

saturating_add(a, b) == IF a + b > U128Max THEN U128Max ELSE a + b
\* The issuance counter is a u32.
saturating_add_u32(a, b) == IF a + b > U32Max THEN U32Max ELSE a + b
saturating_sub(a, b) == IF b > a THEN 0 ELSE a - b
saturating_mul(a, b) == IF a * b > U128Max THEN U128Max ELSE a * b
\* Option<u128>: None, or Some(n) as a sequence of one number.
None == <<>>
Some(n) == <<n>>
checked_div(a, b) == IF b = 0 THEN None ELSE Some(a \div b)
checked_mul(a, b) == IF a * b > U128Max THEN None ELSE Some(a * b)
checked_div_opt(a, b) == IF a = None THEN None ELSE checked_div(a[1], b)

\* The pallet's storage as one value.
Credits ==
    [EmissionFactor |-> EmissionFactor, EnergyAccumulated |-> EnergyAccumulated,
     TotalEnergy |-> TotalEnergy, CreditsBalance |-> CreditsBalance,
     AccountCredits |-> AccountCredits, TotalCreditsIssued |-> TotalCreditsIssued,
     TotalCO2Avoided |-> TotalCO2Avoided, IssuanceCount |-> IssuanceCount,
     ActiveDeviceCount |-> ActiveDeviceCount]

\* A faulty variant: a record of no energy is refused.
record_energy_call_requires_energy(K, origin, device_id, energy_wh, proof_index) ==
    IF origin.kind # "signed" THEN Err(K, "BadOrigin")
    ELSE IF Len(device_id) > MaxDeviceIdLength THEN Err(K, "DeviceIdTooLong")
    ELSE IF energy_wh = 0 THEN Err(K, "EnergyBelowMinimum")
    ELSE LET was_zero == /\ Get(K.EnergyAccumulated, device_id, 0) = 0
                         /\ Get(K.TotalEnergy, device_id, 0) = 0
             new_accumulated ==
                 saturating_add(Get(K.EnergyAccumulated, device_id, 0), energy_wh)
         IN  Outcome(
               [K EXCEPT
                  !.EnergyAccumulated = Put(@, device_id, new_accumulated),
                  !.TotalEnergy =
                      Put(@, device_id, saturating_add(Get(@, device_id, 0), energy_wh)),
                  !.ActiveDeviceCount = IF was_zero THEN @ + 1 ELSE @],
               "Ok",
               <<[event |-> "EnergyRecorded", device_id |-> device_id,
                  energy_wh |-> energy_wh, total_accumulated |-> new_accumulated]>>)

\* A faulty variant: the lifetime energy is set to the new pending energy.
record_energy_call_lifetime_from_pending(K, origin, device_id, energy_wh, proof_index) ==
    IF origin.kind # "signed" THEN Err(K, "BadOrigin")
    ELSE IF Len(device_id) > MaxDeviceIdLength THEN Err(K, "DeviceIdTooLong")
    ELSE LET was_zero == /\ Get(K.EnergyAccumulated, device_id, 0) = 0
                         /\ Get(K.TotalEnergy, device_id, 0) = 0
             new_accumulated ==
                 saturating_add(Get(K.EnergyAccumulated, device_id, 0), energy_wh)
         IN  Outcome(
               [K EXCEPT
                  !.EnergyAccumulated = Put(@, device_id, new_accumulated),
                  !.TotalEnergy = Put(@, device_id, new_accumulated),
                  !.ActiveDeviceCount = IF was_zero THEN @ + 1 ELSE @],
               "Ok",
               <<[event |-> "EnergyRecorded", device_id |-> device_id,
                  energy_wh |-> energy_wh, total_accumulated |-> new_accumulated]>>)

record_energy_call(K, origin, device_id, energy_wh, proof_index) ==
    IF origin.kind # "signed" THEN Err(K, "BadOrigin")
    ELSE IF Len(device_id) > MaxDeviceIdLength THEN Err(K, "DeviceIdTooLong")
    ELSE LET was_zero == /\ Get(K.EnergyAccumulated, device_id, 0) = 0
                         /\ Get(K.TotalEnergy, device_id, 0) = 0
             new_accumulated ==
                 saturating_add(Get(K.EnergyAccumulated, device_id, 0), energy_wh)
         IN  Outcome(
               [K EXCEPT
                  !.EnergyAccumulated = Put(@, device_id, new_accumulated),
                  !.TotalEnergy =
                      Put(@, device_id, saturating_add(Get(@, device_id, 0), energy_wh)),
                  !.ActiveDeviceCount = IF was_zero THEN @ + 1 ELSE @],
               "Ok",
               <<[event |-> "EnergyRecorded", device_id |-> device_id,
                  energy_wh |-> energy_wh, total_accumulated |-> new_accumulated]>>)

\* A faulty variant: the configured default factor is used, not the stored one.
claim_credits_call_default_factor(K, origin, device_id) ==
    IF origin.kind # "signed" THEN Err(K, "BadOrigin")
    ELSE IF Len(device_id) > MaxDeviceIdLength THEN Err(K, "DeviceIdTooLong")
    ELSE LET accumulated == Get(K.EnergyAccumulated, device_id, 0) IN
         IF accumulated = 0 THEN Err(K, "NoCreditsAvailable")
         ELSE IF ~(accumulated >= MinClaimableEnergy) THEN Err(K, "EnergyBelowMinimum")
         ELSE LET emission_factor == DefaultEmissionFactor
                  energy_kwh == accumulated \div 1000
                  co2_avoided_kg == saturating_mul(energy_kwh, emission_factor) \div 1000
              IN  IF co2_avoided_kg = 0 THEN Err(K, "NoCreditsAvailable")
                  ELSE LET credits ==
                               saturating_mul(co2_avoided_kg, CreditsPerTonCO2) \div 1000
                       IN  IF credits = 0 THEN Err(K, "NoCreditsAvailable")
                           ELSE Outcome(
                                  [K EXCEPT
                                     !.CreditsBalance =
                                         Put(@, device_id,
                                             saturating_add(Get(@, device_id, 0), credits)),
                                     !.TotalCreditsIssued = saturating_add(@, credits),
                                     !.TotalCO2Avoided = saturating_add(@, co2_avoided_kg),
                                     !.IssuanceCount =
                                         Put(@, device_id,
                                             saturating_add_u32(Get(@, device_id, 0), 1)),
                                     !.EnergyAccumulated = Put(@, device_id, 0)],
                                  "Ok",
                                  <<[event |-> "CreditsClaimed", device_id |-> device_id,
                                     credits |-> credits, energy_wh |-> accumulated,
                                     co2_avoided_kg |-> co2_avoided_kg]>>)

\* A faulty variant: a claim that truncates to nothing goes through.
claim_credits_call_awards_zero(K, origin, device_id) ==
    IF origin.kind # "signed" THEN Err(K, "BadOrigin")
    ELSE IF Len(device_id) > MaxDeviceIdLength THEN Err(K, "DeviceIdTooLong")
    ELSE LET accumulated == Get(K.EnergyAccumulated, device_id, 0) IN
         IF accumulated = 0 THEN Err(K, "NoCreditsAvailable")
         ELSE IF ~(accumulated >= MinClaimableEnergy) THEN Err(K, "EnergyBelowMinimum")
         ELSE LET emission_factor == K.EmissionFactor
                  energy_kwh == accumulated \div 1000
                  co2_avoided_kg == saturating_mul(energy_kwh, emission_factor) \div 1000
              IN  IF FALSE THEN Err(K, "NoCreditsAvailable")
                  ELSE LET credits ==
                               saturating_mul(co2_avoided_kg, CreditsPerTonCO2) \div 1000
                       IN  IF FALSE THEN Err(K, "NoCreditsAvailable")
                           ELSE Outcome(
                                  [K EXCEPT
                                     !.CreditsBalance =
                                         Put(@, device_id,
                                             saturating_add(Get(@, device_id, 0), credits)),
                                     !.TotalCreditsIssued = saturating_add(@, credits),
                                     !.TotalCO2Avoided = saturating_add(@, co2_avoided_kg),
                                     !.IssuanceCount =
                                         Put(@, device_id,
                                             saturating_add_u32(Get(@, device_id, 0), 1)),
                                     !.EnergyAccumulated = Put(@, device_id, 0)],
                                  "Ok",
                                  <<[event |-> "CreditsClaimed", device_id |-> device_id,
                                     credits |-> credits, energy_wh |-> accumulated,
                                     co2_avoided_kg |-> co2_avoided_kg]>>)

\* A faulty variant: the pending energy is not consumed.
claim_credits_call_keeps_pending(K, origin, device_id) ==
    IF origin.kind # "signed" THEN Err(K, "BadOrigin")
    ELSE IF Len(device_id) > MaxDeviceIdLength THEN Err(K, "DeviceIdTooLong")
    ELSE LET accumulated == Get(K.EnergyAccumulated, device_id, 0) IN
         IF accumulated = 0 THEN Err(K, "NoCreditsAvailable")
         ELSE IF ~(accumulated >= MinClaimableEnergy) THEN Err(K, "EnergyBelowMinimum")
         ELSE LET emission_factor == K.EmissionFactor
                  energy_kwh == accumulated \div 1000
                  co2_avoided_kg == saturating_mul(energy_kwh, emission_factor) \div 1000
              IN  IF co2_avoided_kg = 0 THEN Err(K, "NoCreditsAvailable")
                  ELSE LET credits ==
                               saturating_mul(co2_avoided_kg, CreditsPerTonCO2) \div 1000
                       IN  IF credits = 0 THEN Err(K, "NoCreditsAvailable")
                           ELSE Outcome(
                                  [K EXCEPT
                                     !.CreditsBalance =
                                         Put(@, device_id,
                                             saturating_add(Get(@, device_id, 0), credits)),
                                     !.TotalCreditsIssued = saturating_add(@, credits),
                                     !.TotalCO2Avoided = saturating_add(@, co2_avoided_kg),
                                     !.IssuanceCount =
                                         Put(@, device_id,
                                             saturating_add_u32(Get(@, device_id, 0), 1)),
                                     !.EnergyAccumulated = @],
                                  "Ok",
                                  <<[event |-> "CreditsClaimed", device_id |-> device_id,
                                     credits |-> credits, energy_wh |-> accumulated,
                                     co2_avoided_kg |-> co2_avoided_kg]>>)

\* A faulty variant: the minimum is checked before the zero.
claim_credits_call_minimum_first(K, origin, device_id) ==
    IF origin.kind # "signed" THEN Err(K, "BadOrigin")
    ELSE IF Len(device_id) > MaxDeviceIdLength THEN Err(K, "DeviceIdTooLong")
    ELSE LET accumulated == Get(K.EnergyAccumulated, device_id, 0) IN
         IF ~(accumulated >= MinClaimableEnergy) THEN Err(K, "EnergyBelowMinimum")
         ELSE IF accumulated = 0 THEN Err(K, "NoCreditsAvailable")
         ELSE LET emission_factor == K.EmissionFactor
                  energy_kwh == accumulated \div 1000
                  co2_avoided_kg == saturating_mul(energy_kwh, emission_factor) \div 1000
              IN  IF co2_avoided_kg = 0 THEN Err(K, "NoCreditsAvailable")
                  ELSE LET credits ==
                               saturating_mul(co2_avoided_kg, CreditsPerTonCO2) \div 1000
                       IN  IF credits = 0 THEN Err(K, "NoCreditsAvailable")
                           ELSE Outcome(
                                  [K EXCEPT
                                     !.CreditsBalance =
                                         Put(@, device_id,
                                             saturating_add(Get(@, device_id, 0), credits)),
                                     !.TotalCreditsIssued = saturating_add(@, credits),
                                     !.TotalCO2Avoided = saturating_add(@, co2_avoided_kg),
                                     !.IssuanceCount =
                                         Put(@, device_id,
                                             saturating_add_u32(Get(@, device_id, 0), 1)),
                                     !.EnergyAccumulated = Put(@, device_id, 0)],
                                  "Ok",
                                  <<[event |-> "CreditsClaimed", device_id |-> device_id,
                                     credits |-> credits, energy_wh |-> accumulated,
                                     co2_avoided_kg |-> co2_avoided_kg]>>)

\* A faulty variant: the lifetime energy is consumed with the pending energy.
claim_credits_call_resets_lifetime(K, origin, device_id) ==
    IF origin.kind # "signed" THEN Err(K, "BadOrigin")
    ELSE IF Len(device_id) > MaxDeviceIdLength THEN Err(K, "DeviceIdTooLong")
    ELSE LET accumulated == Get(K.EnergyAccumulated, device_id, 0) IN
         IF accumulated = 0 THEN Err(K, "NoCreditsAvailable")
         ELSE IF ~(accumulated >= MinClaimableEnergy) THEN Err(K, "EnergyBelowMinimum")
         ELSE LET emission_factor == K.EmissionFactor
                  energy_kwh == accumulated \div 1000
                  co2_avoided_kg == saturating_mul(energy_kwh, emission_factor) \div 1000
              IN  IF co2_avoided_kg = 0 THEN Err(K, "NoCreditsAvailable")
                  ELSE LET credits ==
                               saturating_mul(co2_avoided_kg, CreditsPerTonCO2) \div 1000
                       IN  IF credits = 0 THEN Err(K, "NoCreditsAvailable")
                           ELSE Outcome(
                                  [K EXCEPT
                                     !.CreditsBalance =
                                         Put(@, device_id,
                                             saturating_add(Get(@, device_id, 0), credits)),
                                     !.TotalCreditsIssued = saturating_add(@, credits),
                                     !.TotalCO2Avoided = saturating_add(@, co2_avoided_kg),
                                     !.IssuanceCount =
                                         Put(@, device_id,
                                             saturating_add_u32(Get(@, device_id, 0), 1)),
                                     !.EnergyAccumulated = Put(@, device_id, 0),
                                     !.TotalEnergy = Put(@, device_id, 0)],
                                  "Ok",
                                  <<[event |-> "CreditsClaimed", device_id |-> device_id,
                                     credits |-> credits, energy_wh |-> accumulated,
                                     co2_avoided_kg |-> co2_avoided_kg]>>)

\* A faulty variant: a product that exceeds the largest u128 is an error.
claim_credits_call_checked_mul(K, origin, device_id) ==
    IF origin.kind # "signed" THEN Err(K, "BadOrigin")
    ELSE IF Len(device_id) > MaxDeviceIdLength THEN Err(K, "DeviceIdTooLong")
    ELSE LET accumulated == Get(K.EnergyAccumulated, device_id, 0) IN
         IF accumulated = 0 THEN Err(K, "NoCreditsAvailable")
         ELSE IF ~(accumulated >= MinClaimableEnergy) THEN Err(K, "EnergyBelowMinimum")
         ELSE LET emission_factor == K.EmissionFactor
                  energy_kwh == accumulated \div 1000
                  co2_checked == checked_div_opt(checked_mul(energy_kwh, emission_factor), 1000)
              IN  IF co2_checked = None THEN Err(K, "Overflow")
                  ELSE LET co2_avoided_kg == co2_checked[1] IN
                  IF co2_avoided_kg = 0 THEN Err(K, "NoCreditsAvailable")
                  ELSE LET credits_checked == checked_div_opt(checked_mul(co2_avoided_kg, CreditsPerTonCO2), 1000)
                       IN  IF credits_checked = None THEN Err(K, "Overflow")
                           ELSE LET credits == credits_checked[1] IN
                           IF credits = 0 THEN Err(K, "NoCreditsAvailable")
                           ELSE Outcome(
                                  [K EXCEPT
                                     !.CreditsBalance =
                                         Put(@, device_id,
                                             saturating_add(Get(@, device_id, 0), credits)),
                                     !.TotalCreditsIssued = saturating_add(@, credits),
                                     !.TotalCO2Avoided = saturating_add(@, co2_avoided_kg),
                                     !.IssuanceCount =
                                         Put(@, device_id,
                                             saturating_add_u32(Get(@, device_id, 0), 1)),
                                     !.EnergyAccumulated = Put(@, device_id, 0)],
                                  "Ok",
                                  <<[event |-> "CreditsClaimed", device_id |-> device_id,
                                     credits |-> credits, energy_wh |-> accumulated,
                                     co2_avoided_kg |-> co2_avoided_kg]>>)

claim_credits_call(K, origin, device_id) ==
    IF origin.kind # "signed" THEN Err(K, "BadOrigin")
    ELSE IF Len(device_id) > MaxDeviceIdLength THEN Err(K, "DeviceIdTooLong")
    ELSE LET accumulated == Get(K.EnergyAccumulated, device_id, 0) IN
         IF accumulated = 0 THEN Err(K, "NoCreditsAvailable")
         ELSE IF ~(accumulated >= MinClaimableEnergy) THEN Err(K, "EnergyBelowMinimum")
         ELSE LET emission_factor == K.EmissionFactor
                  energy_kwh == accumulated \div 1000
                  co2_checked == checked_div(saturating_mul(energy_kwh, emission_factor), 1000)
              IN  IF co2_checked = None THEN Err(K, "Overflow")
                  ELSE LET co2_avoided_kg == co2_checked[1] IN
                  IF co2_avoided_kg = 0 THEN Err(K, "NoCreditsAvailable")
                  ELSE LET credits_checked == checked_div(saturating_mul(co2_avoided_kg, CreditsPerTonCO2), 1000)
                       IN  IF credits_checked = None THEN Err(K, "Overflow")
                           ELSE LET credits == credits_checked[1] IN
                           IF credits = 0 THEN Err(K, "NoCreditsAvailable")
                           ELSE Outcome(
                                  [K EXCEPT
                                     !.CreditsBalance =
                                         Put(@, device_id,
                                             saturating_add(Get(@, device_id, 0), credits)),
                                     !.TotalCreditsIssued = saturating_add(@, credits),
                                     !.TotalCO2Avoided = saturating_add(@, co2_avoided_kg),
                                     !.IssuanceCount =
                                         Put(@, device_id,
                                             saturating_add_u32(Get(@, device_id, 0), 1)),
                                     !.EnergyAccumulated = Put(@, device_id, 0)],
                                  "Ok",
                                  <<[event |-> "CreditsClaimed", device_id |-> device_id,
                                     credits |-> credits, energy_wh |-> accumulated,
                                     co2_avoided_kg |-> co2_avoided_kg]>>)

\* A faulty variant: the balance is checked before the two devices are compared.
transfer_credits_call_balance_first(K, origin, from_device, to_device, amount) ==
    IF origin.kind # "signed" THEN Err(K, "BadOrigin")
    ELSE IF Len(from_device) > MaxDeviceIdLength THEN Err(K, "DeviceIdTooLong")
    ELSE IF Len(to_device) > MaxDeviceIdLength THEN Err(K, "DeviceIdTooLong")
    ELSE LET from_balance == Get(K.CreditsBalance, from_device, 0) IN
         IF ~(from_balance >= amount) THEN Err(K, "InsufficientCredits")
         ELSE IF ~(from_device # to_device) THEN Err(K, "SameDeviceTransfer")
         ELSE LET debited == Put(K.CreditsBalance, from_device,
                                 saturating_sub(from_balance, amount))
              IN  Outcome(
                    [K EXCEPT
                       !.CreditsBalance =
                           Put(debited, to_device,
                               saturating_add(Get(debited, to_device, 0), amount))],
                    "Ok",
                    <<[event |-> "CreditsTransferred", from_device |-> from_device,
                       to_device |-> to_device, amount |-> amount]>>)

\* A faulty variant: the receiver is credited and the sender keeps the amount.
transfer_credits_call_keeps_sender(K, origin, from_device, to_device, amount) ==
    IF origin.kind # "signed" THEN Err(K, "BadOrigin")
    ELSE IF Len(from_device) > MaxDeviceIdLength THEN Err(K, "DeviceIdTooLong")
    ELSE IF Len(to_device) > MaxDeviceIdLength THEN Err(K, "DeviceIdTooLong")
    ELSE IF ~(from_device # to_device) THEN Err(K, "SameDeviceTransfer")
    ELSE LET from_balance == Get(K.CreditsBalance, from_device, 0) IN
         IF ~(from_balance >= amount) THEN Err(K, "InsufficientCredits")
         ELSE Outcome(
                [K EXCEPT
                   !.CreditsBalance =
                       Put(@, to_device, saturating_add(Get(@, to_device, 0), amount))],
                "Ok",
                <<[event |-> "CreditsTransferred", from_device |-> from_device,
                   to_device |-> to_device, amount |-> amount]>>)

transfer_credits_call(K, origin, from_device, to_device, amount) ==
    IF origin.kind # "signed" THEN Err(K, "BadOrigin")
    ELSE IF Len(from_device) > MaxDeviceIdLength THEN Err(K, "DeviceIdTooLong")
    ELSE IF Len(to_device) > MaxDeviceIdLength THEN Err(K, "DeviceIdTooLong")
    ELSE IF ~(from_device # to_device) THEN Err(K, "SameDeviceTransfer")
    ELSE LET from_balance == Get(K.CreditsBalance, from_device, 0) IN
         IF ~(from_balance >= amount) THEN Err(K, "InsufficientCredits")
         ELSE LET debited == Put(K.CreditsBalance, from_device,
                                 saturating_sub(from_balance, amount))
              IN  Outcome(
                    [K EXCEPT
                       !.CreditsBalance =
                           Put(debited, to_device,
                               saturating_add(Get(debited, to_device, 0), amount))],
                    "Ok",
                    <<[event |-> "CreditsTransferred", from_device |-> from_device,
                       to_device |-> to_device, amount |-> amount]>>)

\* A faulty variant: the amount goes from the account back to the device.
withdraw_credits_call_deposits_back(K, origin, device_id, amount) ==
    IF origin.kind # "signed" THEN Err(K, "BadOrigin")
    ELSE IF Len(device_id) > MaxDeviceIdLength THEN Err(K, "DeviceIdTooLong")
    ELSE LET device_balance == Get(K.CreditsBalance, device_id, 0)
             who == origin.who
         IN  IF ~(device_balance >= amount) THEN Err(K, "InsufficientCredits")
             ELSE Outcome(
                    [K EXCEPT
                       !.CreditsBalance =
                           Put(@, device_id, saturating_add(device_balance, amount)),
                       !.AccountCredits =
                           Put(@, who, saturating_sub(Get(@, who, 0), amount))],
                    "Ok",
                    <<[event |-> "CreditsWithdrawn", device_id |-> device_id,
                       to_account |-> who, amount |-> amount]>>)

withdraw_credits_call(K, origin, device_id, amount) ==
    IF origin.kind # "signed" THEN Err(K, "BadOrigin")
    ELSE IF Len(device_id) > MaxDeviceIdLength THEN Err(K, "DeviceIdTooLong")
    ELSE LET device_balance == Get(K.CreditsBalance, device_id, 0)
             who == origin.who
         IN  IF ~(device_balance >= amount) THEN Err(K, "InsufficientCredits")
             ELSE Outcome(
                    [K EXCEPT
                       !.CreditsBalance =
                           Put(@, device_id, saturating_sub(device_balance, amount)),
                       !.AccountCredits =
                           Put(@, who, saturating_add(Get(@, who, 0), amount))],
                    "Ok",
                    <<[event |-> "CreditsWithdrawn", device_id |-> device_id,
                       to_account |-> who, amount |-> amount]>>)

\* A faulty variant: the value is checked before the origin.
set_emission_factor_call_value_first(K, origin, new_factor) ==
    IF ~(new_factor > 0) THEN Err(K, "InvalidEmissionFactor")
    ELSE IF origin.kind # "root" THEN Err(K, "BadOrigin")
    ELSE Outcome([K EXCEPT !.EmissionFactor = new_factor],
                 "Ok",
                 <<[event |-> "EmissionFactorUpdated", old_factor |-> K.EmissionFactor,
                    new_factor |-> new_factor]>>)

\* A faulty variant: a factor of zero is accepted.
set_emission_factor_call_accepts_zero(K, origin, new_factor) ==
    IF origin.kind # "root" THEN Err(K, "BadOrigin")
    ELSE Outcome([K EXCEPT !.EmissionFactor = new_factor],
                 "Ok",
                 <<[event |-> "EmissionFactorUpdated", old_factor |-> K.EmissionFactor,
                    new_factor |-> new_factor]>>)

\* A faulty variant: a new factor restarts the avoided-CO2 total.
set_emission_factor_call_restarts_total(K, origin, new_factor) ==
    IF origin.kind # "root" THEN Err(K, "BadOrigin")
    ELSE IF ~(new_factor > 0) THEN Err(K, "InvalidEmissionFactor")
    ELSE Outcome([K EXCEPT !.EmissionFactor = new_factor, !.TotalCO2Avoided = 0],
                 "Ok",
                 <<[event |-> "EmissionFactorUpdated", old_factor |-> K.EmissionFactor,
                    new_factor |-> new_factor]>>)

set_emission_factor_call(K, origin, new_factor) ==
    IF origin.kind # "root" THEN Err(K, "BadOrigin")
    ELSE IF ~(new_factor > 0) THEN Err(K, "InvalidEmissionFactor")
    ELSE Outcome([K EXCEPT !.EmissionFactor = new_factor],
                 "Ok",
                 <<[event |-> "EmissionFactorUpdated", old_factor |-> K.EmissionFactor,
                    new_factor |-> new_factor]>>)

\* Query: the credits the current emission factor gives for energy_wh.
\* A faulty variant: the preview uses the default factor, not the current one.
calculate_credits_default_factor(K, energy_wh) ==
    LET emission_factor == DefaultEmissionFactor
        energy_kwh == energy_wh \div 1000
        co2_avoided_kg == saturating_mul(energy_kwh, emission_factor) \div 1000
    IN  saturating_mul(co2_avoided_kg, CreditsPerTonCO2) \div 1000

calculate_credits(K, energy_wh) ==
    LET emission_factor == K.EmissionFactor
        energy_kwh == energy_wh \div 1000
        co2_avoided_kg == saturating_mul(energy_kwh, emission_factor) \div 1000
    IN  saturating_mul(co2_avoided_kg, CreditsPerTonCO2) \div 1000

CommitCredits(name, out) ==
    /\ EmissionFactor' = out.store.EmissionFactor
    /\ EnergyAccumulated' = out.store.EnergyAccumulated
    /\ TotalEnergy' = out.store.TotalEnergy
    /\ CreditsBalance' = out.store.CreditsBalance
    /\ AccountCredits' = out.store.AccountCredits
    /\ TotalCreditsIssued' = out.store.TotalCreditsIssued
    /\ TotalCO2Avoided' = out.store.TotalCO2Avoided
    /\ IssuanceCount' = out.store.IssuanceCount
    /\ ActiveDeviceCount' = out.store.ActiveDeviceCount
    /\ op' = name
    /\ result' = out.result
    /\ returned' = <<>>
    /\ events' = out.events
    /\ UNCHANGED <<block_number, timestamp>>
    /\ UNCHANGED ledgerVars

\* History the code does not keep: seen is the set of devices for which a
\* record_energy call has succeeded, budget the number of successful
\* record_energy calls the exploration still makes, claimed the set of
\* devices with a successful claim_credits and no successful record_energy
\* since.
record_energy(origin, device_id, energy_wh, proof_index) ==
    LET out == record_energy_call(Credits, origin, device_id, energy_wh, proof_index) IN
    /\ budget > 0
    /\ CommitCredits("record_energy", out)
    /\ seen' = IF out.result = "Ok" THEN seen \cup {device_id} ELSE seen
    /\ budget' = IF out.result = "Ok" THEN budget - 1 ELSE budget
    /\ claimed' = IF out.result = "Ok" THEN claimed \ {device_id} ELSE claimed

claim_credits(origin, device_id) ==
    LET out == claim_credits_call(Credits, origin, device_id) IN
    /\ CommitCredits("claim_credits", out)
    /\ claimed' = IF out.result = "Ok" THEN claimed \cup {device_id} ELSE claimed
    /\ UNCHANGED <<seen, budget>>

transfer_credits(origin, from_device, to_device, amount) ==
    /\ CommitCredits("transfer_credits",
                     transfer_credits_call(Credits, origin, from_device, to_device, amount))
    /\ UNCHANGED <<seen, budget, claimed>>

withdraw_credits(origin, device_id, amount) ==
    /\ CommitCredits("withdraw_credits",
                     withdraw_credits_call(Credits, origin, device_id, amount))
    /\ UNCHANGED <<seen, budget, claimed>>

set_emission_factor(origin, new_factor) ==
    /\ CommitCredits("set_emission_factor",
                     set_emission_factor_call(Credits, origin, new_factor))
    /\ UNCHANGED <<seen, budget, claimed>>

\* The next block: frame_system advances the height, pallet_timestamp the time,
\* and the block's events start empty.
next_block ==
    /\ block_number < MaxBlock
    /\ block_number' = block_number + 1
    /\ timestamp' = timestamp + MILLISECS_PER_BLOCK
    /\ op' = "next_block"
    /\ result' = "Ok"
    /\ returned' = <<>>
    /\ events' = <<>>
    /\ UNCHANGED ledgerVars
    /\ UNCHANGED creditVars

InitLedger ==
    /\ block_number = 0
    /\ timestamp = 0
    /\ Proofs = EmptyMap
    /\ ProofsByBlock = EmptyMap
    /\ ProofCount = EmptyMap
    /\ TotalProofs = 0
    /\ LatestProofBlock = EmptyMap

Init ==
    /\ InitLedger
    /\ EmissionFactor = DefaultEmissionFactor
    /\ EnergyAccumulated = ZeroMap(Devices)
    /\ TotalEnergy = ZeroMap(Devices)
    /\ CreditsBalance = ZeroMap(Devices)
    /\ AccountCredits = ZeroMap(Accounts)
    /\ TotalCreditsIssued = 0
    /\ TotalCO2Avoided = 0
    /\ IssuanceCount = ZeroMap(Devices)
    /\ ActiveDeviceCount = 0
    /\ seen = {}
    /\ budget = MaxRecords
    /\ claimed = {}
    /\ op = "genesis"
    /\ result = "Ok"
    /\ returned = <<>>
    /\ events = <<>>

Origins == {Signed(1), NoneOrigin}

\* A call whose origin check fails looks at nothing else, so it is made with
\* one argument only.
ArgsFor(o, kind, S) == IF o.kind = kind THEN S ELSE {CHOOSE x \in S : TRUE}

NextLedger ==
    \/ next_block
    \/ \E o \in Origins : \E e \in ArgsFor(o, "signed", SingleEntries) :
          submit_proof(o, e[1], e[2], e[3], e[4], e[5])
    \/ \E o \in Origins : \E es \in ArgsFor(o, "signed", Batches) :
          submit_batch_proofs(o, es)
    \/ \E o \in Origins : \E e \in ArgsFor(o, "none", SingleEntries) :
          submit_proof_unsigned(o, e[1], e[2], e[3], e[4], e[5])
    \/ \E o \in Origins : \E es \in ArgsFor(o, "none", Batches) :
          submit_batch_proofs_unsigned(o, es)

SpecLedger == Init /\ [][NextLedger]_vars

(***************************************************************************)
(* The ledger's read-only queries.  Each scans the indices below the       *)
(* device's proof count and writes nothing; returned holds its value.      *)
(***************************************************************************)
Returned(name, args, value) == <<[query |-> name, args |-> args, value |-> value]>>

\* A faulty variant: a record is taken when its window overlaps the range.
RECURSIVE get_proofs_in_window_overlapping(_, _, _, _, _)
get_proofs_in_window_overlapping(S, device_id, start_time, end_time, i) ==
    IF i >= Get(S.ProofCount, device_id, 0) THEN <<>>
    ELSE LET rest == get_proofs_in_window_overlapping(S, device_id, start_time, end_time, i + 1)
         IN  IF <<device_id, i>> \in DOMAIN S.Proofs
                  /\ S.Proofs[<<device_id, i>>].window_start <= end_time
                  /\ S.Proofs[<<device_id, i>>].window_end >= start_time
             THEN <<S.Proofs[<<device_id, i>>]>> \o rest
             ELSE rest

\* The records at indices i, i + 1, ... below the count that pass the filter.
RECURSIVE get_proofs_in_window_from(_, _, _, _, _)
get_proofs_in_window_from(S, device_id, start_time, end_time, i) ==
    IF i >= Get(S.ProofCount, device_id, 0) THEN <<>>
    ELSE LET rest == get_proofs_in_window_from(S, device_id, start_time, end_time, i + 1)
         IN  IF <<device_id, i>> \in DOMAIN S.Proofs
                  /\ S.Proofs[<<device_id, i>>].window_start >= start_time
                  /\ S.Proofs[<<device_id, i>>].window_end <= end_time
             THEN <<S.Proofs[<<device_id, i>>]>> \o rest
             ELSE rest

get_proofs_in_window(S, device_id, start_time, end_time) ==
    get_proofs_in_window_from(S, device_id, start_time, end_time, 0)

\* A faulty variant: the scan covers the records of every device.
proof_exists_any_device(S, device_id, proof_hash) ==
    \E k \in DOMAIN S.Proofs : S.Proofs[k].proof_hash = proof_hash

\* The records at indices i, i + 1, ... below the count that are present.
RECURSIVE get_device_proofs_from(_, _, _)
get_device_proofs_from(S, device_id, i) ==
    IF i >= Get(S.ProofCount, device_id, 0) THEN <<>>
    ELSE LET rest == get_device_proofs_from(S, device_id, i + 1)
         IN  IF <<device_id, i>> \in DOMAIN S.Proofs
             THEN <<S.Proofs[<<device_id, i>>]>> \o rest
             ELSE rest

get_device_proofs(S, device_id) == get_device_proofs_from(S, device_id, 0)

proof_exists(S, device_id, proof_hash) ==
    \E i \in 0..(Get(S.ProofCount, device_id, 0) - 1) :
        /\ <<device_id, i>> \in DOMAIN S.Proofs
        /\ S.Proofs[<<device_id, i>>].proof_hash = proof_hash

\* verify_proof is a call: it makes the same scan and deposits the answer in
\* an event; it writes no storage.
verify_proof_call(S, origin, device_id, proof_hash) ==
    IF origin.kind # "signed" THEN Err(S, "BadOrigin")
    ELSE IF Len(device_id) > MaxDeviceIdLength THEN Err(S, "DeviceIdTooLong")
    ELSE IF Len(proof_hash) > MaxProofLength THEN Err(S, "ProofTooLong")
    ELSE Outcome(S, "Ok",
                 <<[event |-> "ProofVerified", device_id |-> device_id,
                    proof_hash |-> proof_hash,
                    exists |-> proof_exists(S, device_id, proof_hash)]>>)

verify_proof(origin, device_id, proof_hash) ==
    CommitLedger("verify_proof", verify_proof_call(Ledger, origin, device_id, proof_hash))

Query(name, args, value) ==
    /\ returned' = Returned(name, args, value)
    /\ op' = name
    /\ result' = "Ok"
    /\ events' = <<>>
    /\ UNCHANGED <<block_number, timestamp>>
    /\ UNCHANGED ledgerVars
    /\ UNCHANGED creditVars

get_proofs_in_window_query(device_id, start_time, end_time) ==
    Query("get_proofs_in_window", <<device_id, start_time, end_time>>,
          get_proofs_in_window(Ledger, device_id, start_time, end_time))

proof_exists_query(device_id, proof_hash) ==
    Query("proof_exists", <<device_id, proof_hash>>,
          proof_exists(Ledger, device_id, proof_hash))

\* Ranges that hold both stored windows, one of them with the other only
\* overlapping, one that both only overlap, and an inverted range.
QueryWindows == {<<1000, 3000>>, <<1000, 2000>>, <<1500, 3000>>, <<1500, 2500>>, <<3000, 1000>>}
QueryHashes == {HashX, HashY}

\* The queries are asked between submissions by all four paths.  The
\* submissions are the ones that can store a record, and one with an empty
\* window; the calls that fail on their origin or on a length leave nothing
\* for a query to see.
QueryEntries ==
    { Entry(d, p[1], 10, p[2], p[3]) :
        d \in Devices, p \in {<<HashX, 1000, 2000>>, <<HashY, 2000, 3000>>} }
    \cup { Entry(DevA, HashX, 10, 2000, 2000) }
QueryBatches ==
    { es \in SeqsUpTo({ Entry(DevA, HashX, 10, 1000, 2000),
                        Entry(DevA, HashY, 10, 2000, 3000),
                        Entry(DevB, HashX, 10, 1000, 2000) }, MaxBatchSize - 1) : Len(es) > 0 }
       \cup { es \in FullBatches : \A i \in 1..Len(es) : es[i][4] < es[i][5] }

NextLedgerQueries ==
    \/ next_block
    \/ \E e \in QueryEntries : submit_proof(Signed(1), e[1], e[2], e[3], e[4], e[5])
    \/ \E es \in QueryBatches : submit_batch_proofs(Signed(1), es)
    \/ \E e \in QueryEntries : submit_proof_unsigned(NoneOrigin, e[1], e[2], e[3], e[4], e[5])
    \/ \E es \in QueryBatches : submit_batch_proofs_unsigned(NoneOrigin, es)
    \/ \E d \in Devices, w \in QueryWindows : get_proofs_in_window_query(d, w[1], w[2])
    \/ \E d \in Devices, h \in QueryHashes : proof_exists_query(d, h)
    \/ \E o \in Origins :
          \E d \in ArgsFor(o, "signed", Devices), h \in ArgsFor(o, "signed", QueryHashes) :
             verify_proof(o, d, h)

SpecLedgerQueries == Init /\ [][NextLedgerQueries]_vars

(***************************************************************************)
(* Admission of unsigned submissions to the pool: validate_unsigned.  S    *)
(* and b are the storage and the height the validator runs against; the   *)
(* code reads neither.  A verdict is either invalid with its reason, or    *)
(* valid with the priority, longevity, provides tags and propagation of    *)
(* the ValidTransaction.                                                   *)
(***************************************************************************)
TransactionSources == {"Local", "InBlock", "External"}

InvalidTransaction(error) ==
    [valid |-> FALSE, error |-> error, priority |-> 0, longevity |-> 0,
     provides |-> <<>>, propagate |-> FALSE]
\* The SCALE encoding of a byte vector: its length in compact form (one byte
\* below 64, two bytes, low byte first, below 2^14), then its bytes.
compact(n) == IF n < 64 THEN <<4 * n>> ELSE <<(4 * n + 1) % 256, (4 * n + 1) \div 256>>
encode(v) == compact(Len(v)) \o v

\* A faulty variant: the two vectors are joined without their lengths.
encode_tag_without_lengths(tag) == tag[1] \o tag[2]

\* The encoding of a pair of byte vectors: one encoding after the other.
encode_tag(tag) == encode(tag[1]) \o encode(tag[2])

\* and_provides pushes the encoding of (prefix, tag); the prefix stands for
\* its own encoding.
ValidTransaction(prefix, tag) ==
    [valid |-> TRUE, error |-> "", priority |-> 100, longevity |-> 5,
     provides |-> <<<<prefix>> \o encode_tag(tag)>>, propagate |-> FALSE]

SingleCall(e) ==
    [call |-> "submit_proof_unsigned", device_id |-> e[1], proof_hash |-> e[2],
     record_count |-> e[3], window_start |-> e[4], window_end |-> e[5]]
BatchCall(es) == [call |-> "submit_batch_proofs_unsigned", proofs |-> es]
OtherCall == [call |-> "verify_proof", device_id |-> DevA, proof_hash |-> HashX]

\* A faulty variant: a submission the ledger holds a proof for at this height,
\* or whose device is at its cap, is turned away at admission.
validate_unsigned_reads_ledger(S, b, source, call) ==
    IF source \notin {"Local", "InBlock"} THEN InvalidTransaction("BadSigner")
    ELSE IF call.call = "submit_proof_unsigned"
         THEN IF Len(call.device_id) > MaxDeviceIdLength THEN InvalidTransaction("Custom(1)")
              ELSE IF Len(call.proof_hash) > MaxProofLength THEN InvalidTransaction("Custom(2)")
              ELSE IF call.window_start >= call.window_end THEN InvalidTransaction("Custom(3)")
              ELSE IF Get(S.ProofCount, call.device_id, 0) >= MaxProofsPerDevice
                   THEN InvalidTransaction("Stale")
              ELSE IF <<b, call.device_id>> \in DOMAIN S.ProofsByBlock
                   THEN InvalidTransaction("Stale")
              ELSE ValidTransaction("TelemetryProof", <<call.device_id, call.proof_hash>>)
    ELSE IF call.call = "submit_batch_proofs_unsigned"
         THEN IF Len(call.proofs) = 0 THEN InvalidTransaction("Custom(4)")
              ELSE IF Len(call.proofs) > MaxBatchSize THEN InvalidTransaction("Custom(5)")
              ELSE ValidTransaction("TelemetryProofBatch",
                                    <<call.proofs[1][1], call.proofs[Len(call.proofs)][2]>>)
    ELSE InvalidTransaction("Call")

\* A faulty variant: the window is not looked at.
validate_unsigned_any_window(S, b, source, call) ==
    IF source \notin {"Local", "InBlock"} THEN InvalidTransaction("BadSigner")
    ELSE IF call.call = "submit_proof_unsigned"
         THEN IF Len(call.device_id) > MaxDeviceIdLength THEN InvalidTransaction("Custom(1)")
              ELSE IF Len(call.proof_hash) > MaxProofLength THEN InvalidTransaction("Custom(2)")
              ELSE ValidTransaction("TelemetryProof", <<call.device_id, call.proof_hash>>)
    ELSE IF call.call = "submit_batch_proofs_unsigned"
         THEN IF Len(call.proofs) = 0 THEN InvalidTransaction("Custom(4)")
              ELSE IF Len(call.proofs) > MaxBatchSize THEN InvalidTransaction("Custom(5)")
              ELSE ValidTransaction("TelemetryProofBatch",
                                    <<call.proofs[1][1], call.proofs[Len(call.proofs)][2]>>)
    ELSE InvalidTransaction("Call")

\* A faulty variant: a batch one entry over the limit is admitted.
validate_unsigned_one_over_limit(S, b, source, call) ==
    IF source \notin {"Local", "InBlock"} THEN InvalidTransaction("BadSigner")
    ELSE IF call.call = "submit_proof_unsigned"
         THEN IF Len(call.device_id) > MaxDeviceIdLength THEN InvalidTransaction("Custom(1)")
              ELSE IF Len(call.proof_hash) > MaxProofLength THEN InvalidTransaction("Custom(2)")
              ELSE IF call.window_start >= call.window_end THEN InvalidTransaction("Custom(3)")
              ELSE ValidTransaction("TelemetryProof", <<call.device_id, call.proof_hash>>)
    ELSE IF call.call = "submit_batch_proofs_unsigned"
         THEN IF Len(call.proofs) = 0 THEN InvalidTransaction("Custom(4)")
              ELSE IF Len(call.proofs) > MaxBatchSize + 1 THEN InvalidTransaction("Custom(5)")
              ELSE ValidTransaction("TelemetryProofBatch",
                                    <<call.proofs[1][1], call.proofs[Len(call.proofs)][2]>>)
    ELSE InvalidTransaction("Call")

validate_unsigned(S, b, source, call) ==
    IF source \notin {"Local", "InBlock"} THEN InvalidTransaction("BadSigner")
    ELSE IF call.call = "submit_proof_unsigned"
         THEN IF Len(call.device_id) > MaxDeviceIdLength THEN InvalidTransaction("Custom(1)")
              ELSE IF Len(call.proof_hash) > MaxProofLength THEN InvalidTransaction("Custom(2)")
              ELSE IF call.window_start >= call.window_end THEN InvalidTransaction("Custom(3)")
              ELSE ValidTransaction("TelemetryProof", <<call.device_id, call.proof_hash>>)
    ELSE IF call.call = "submit_batch_proofs_unsigned"
         THEN IF Len(call.proofs) = 0 THEN InvalidTransaction("Custom(4)")
              ELSE IF Len(call.proofs) > MaxBatchSize THEN InvalidTransaction("Custom(5)")
              ELSE ValidTransaction("TelemetryProofBatch",
                                    <<call.proofs[1][1], call.proofs[Len(call.proofs)][2]>>)
    ELSE InvalidTransaction("Call")

validate_unsigned_query(source, call) ==
    Query("validate_unsigned", <<source, call>>,
          validate_unsigned(Ledger, block_number, source, call))

\* The pool asks about a submission the ledger can store, one with an empty
\* window, a batch, and a call that is not an unsigned submission; the ledger
\* meanwhile takes unsigned submissions and produces blocks.
AdmitCalls ==
    { SingleCall(Entry(DevA, HashX, 10, 1000, 2000)),
      SingleCall(Entry(DevA, HashX, 10, 2000, 2000)),
      BatchCall(<<Entry(DevA, HashX, 10, 1000, 2000)>>),
      BatchCall(<<Entry(DevA, HashX, 10, 1000, 2000),
                  Entry(DevB, HashY, 11, 2000, 3000),
                  Entry(DevA, HashX, 12, 5000, 4000)>>),
      BatchCall(<<Entry(<<65>>, <<66, 120>>, 10, 1000, 2000)>>),
      OtherCall }

NextAdmission ==
    \/ next_block
    \/ \E e \in QueryEntries : submit_proof_unsigned(NoneOrigin, e[1], e[2], e[3], e[4], e[5])
    \/ \E es \in QueryBatches : submit_batch_proofs_unsigned(NoneOrigin, es)
    \/ \E source \in TransactionSources, call \in AdmitCalls :
          validate_unsigned_query(source, call)

SpecAdmission == Init /\ [][NextAdmission]_vars

(***************************************************************************)
(* The accounting engine's calls.  At most MaxRecords record_energy calls  *)
(* succeed; amounts are taken at the balance and around it.                *)
(***************************************************************************)
EnergyInputs == {0, 500, 10000, U128Max}
\* Factor 90 is small enough for 10000 Wh to truncate to no CO2 and large
\* enough for the largest energy to give one credit.
FactorInputs == {0, 90}
Amounts(balance) == {a \in {0, balance, balance + 1} : a <= U128Max}
CreditOrigins == {Signed(1), NoneOrigin, RootOrigin}
WithdrawOrigins == {Signed(2), NoneOrigin}

NextCredits ==
    \/ \E o \in CreditOrigins :
          \E d \in ArgsFor(o, "signed", SingleDevices), e \in ArgsFor(o, "signed", EnergyInputs) :
             record_energy(o, d, e, "None")
    \/ \E o \in CreditOrigins :
          \E d \in ArgsFor(o, "signed", SingleDevices) : claim_credits(o, d)
    \/ \E o \in CreditOrigins :
          \E from \in ArgsFor(o, "signed", SingleDevices),
             to \in ArgsFor(o, "signed", SingleDevices) :
             \E a \in ArgsFor(o, "signed", Amounts(Get(CreditsBalance, from, 0))) :
                transfer_credits(o, from, to, a)
    \/ \E o \in WithdrawOrigins :
          \E d \in ArgsFor(o, "signed", SingleDevices) :
             \E a \in ArgsFor(o, "signed", Amounts(Get(CreditsBalance, d, 0))) :
                withdraw_credits(o, d, a)
    \/ \E o \in CreditOrigins, f \in FactorInputs : set_emission_factor(o, f)

SpecCredits == Init /\ [][NextCredits]_vars

(***************************************************************************)
(* The accounting engine with its preview.  calculate_credits is a         *)
(* read-only query: it returns a number and writes nothing.  It is asked   *)
(* for the pending energy of each device and for 10000 Wh.                 *)
(***************************************************************************)
calculate_credits_query(energy_wh) ==
    Query("calculate_credits", <<energy_wh>>, calculate_credits(Credits, energy_wh))

PreviewInputs == {EnergyAccumulated[d] : d \in Devices} \cup {10000}

NextCreditQueries ==
    \/ NextCredits
    \/ \E e \in PreviewInputs : calculate_credits_query(e)

SpecCreditQueries == Init /\ [][NextCreditQueries]_vars

(***************************************************************************)
(* The engine late in its life.  LateStore is the storage after LateRounds *)
(* rounds of record_energy(DevA, U128Max); claim_credits(DevA) from Init   *)
(* under the default emission factor: each round issues LateCredits, and   *)
(* LateRounds is the largest number of rounds whose credits still fit the  *)
(* balance.  SpecRamp makes exactly these rounds, and TLC reaches          *)
(* LateStore under it; SpecLate explores the engine from there.            *)
(***************************************************************************)
LateCO2 == saturating_mul(U128Max \div 1000, DefaultEmissionFactor) \div 1000
LateCredits == saturating_mul(LateCO2, CreditsPerTonCO2) \div 1000
LateRounds == U128Max \div LateCredits

LateStore ==
    /\ InitLedger
    /\ EmissionFactor = DefaultEmissionFactor
    /\ EnergyAccumulated = ZeroMap(Devices)
    /\ TotalEnergy = [ZeroMap(Devices) EXCEPT ![DevA] = U128Max]
    /\ CreditsBalance = [ZeroMap(Devices) EXCEPT ![DevA] = LateRounds * LateCredits]
    /\ AccountCredits = ZeroMap(Accounts)
    /\ TotalCreditsIssued = LateRounds * LateCredits
    /\ TotalCO2Avoided = LateRounds * LateCO2
    /\ IssuanceCount = [ZeroMap(Devices) EXCEPT ![DevA] = LateRounds]
    /\ ActiveDeviceCount = 1
    /\ seen = {DevA}
    /\ claimed = {DevA}
    /\ op = "claim_credits"
    /\ result = "Ok"
    /\ returned = <<>>
    /\ events = <<[event |-> "CreditsClaimed", device_id |-> DevA,
                   credits |-> LateCredits, energy_wh |-> U128Max,
                   co2_avoided_kg |-> LateCO2]>>

InitLate == LateStore /\ budget = MaxRecords

SpecLate == InitLate /\ [][NextCredits]_vars

InitRamp ==
    /\ InitLedger
    /\ EmissionFactor = DefaultEmissionFactor
    /\ EnergyAccumulated = ZeroMap(Devices)
    /\ TotalEnergy = ZeroMap(Devices)
    /\ CreditsBalance = ZeroMap(Devices)
    /\ AccountCredits = ZeroMap(Accounts)
    /\ TotalCreditsIssued = 0
    /\ TotalCO2Avoided = 0
    /\ IssuanceCount = ZeroMap(Devices)
    /\ ActiveDeviceCount = 0
    /\ seen = {}
    /\ budget = LateRounds
    /\ claimed = {}
    /\ op = "genesis"
    /\ result = "Ok"
    /\ returned = <<>>
    /\ events = <<>>

NextRamp ==
    \/ /\ EnergyAccumulated[DevA] = 0
       /\ record_energy(Signed(1), DevA, U128Max, "None")
    \/ /\ EnergyAccumulated[DevA] > 0
       /\ claim_credits(Signed(1), DevA)

SpecRamp == InitRamp /\ [][NextRamp]_vars

\* Violated under SpecRamp: the rounds end in LateStore.
RampNeverLate == ~LateStore

(***************************************************************************)
(* Properties.                                                             *)
(***************************************************************************)
Count(m, k) == Get(m, k, 0)
\* A record of device d with block number b is stored.
AcceptedAt(S, d, b) == \E k \in DOMAIN S.Proofs : k[1] = d /\ S.Proofs[k].block_number = b
\* The entry passes the rules that look at the entry alone.
WellFormed(e) ==
    /\ e[4] < e[5]
    /\ Len(e[1]) <= MaxDeviceIdLength
    /\ Len(e[2]) <= MaxProofLength
LastEvent == events[Len(events)]

\* C1: a successful record_energy call raises ActiveDeviceCount by one when
\* it is the first for its device, and leaves it as it is on every later
\* call for that device.
C1_ActiveCountOncePerDevice ==
    [][(op' = "record_energy" /\ result' = "Ok")
         => ActiveDeviceCount' = ActiveDeviceCount + Cardinality(seen' \ seen)]_vars

\* C2: the summary event of a successful batch call, signed or unsigned,
\* carries the number of proofs the call stored.
C2_SummaryCountsAccepted ==
    [][(op' \in {"submit_batch_proofs", "submit_batch_proofs_unsigned"} /\ result' = "Ok")
         => events'[Len(events')].proof_count = TotalProofs' - TotalProofs]_vars

\* C3: a successful transfer_credits leaves the sum of the two device
\* balances as it was.
C3_TransferConserves ==
    [][(op' = "transfer_credits" /\ result' = "Ok")
         => CreditsBalance'[DevA] + CreditsBalance'[DevB]
              = CreditsBalance[DevA] + CreditsBalance[DevB]]_vars

NonRootOrigins == {Signed(1), Signed(2), NoneOrigin}
FactorValues == FactorInputs \cup {1, DefaultEmissionFactor}

\* C4 as claimed: set_emission_factor from an origin that is not root fails
\* with NotAuthorized for every new_factor and leaves EmissionFactor alone.
C4_NonRootNotAuthorized ==
    \A o \in NonRootOrigins, f \in FactorValues :
        LET out == set_emission_factor_call(Credits, o, f) IN
        /\ out.result = "NotAuthorized"
        /\ out.store.EmissionFactor = EmissionFactor

\* C4 amended: set_emission_factor from an origin that is not root fails
\* with BadOrigin for every new_factor, 0 included, and leaves the storage,
\* EmissionFactor included, as it was.
C4_NonRootBadOrigin ==
    \A o \in NonRootOrigins, f \in FactorValues :
        LET out == set_emission_factor_call(Credits, o, f) IN
        /\ out.result = "BadOrigin"
        /\ out.store = Credits

C4_Witness ==
    /\ op = "set_emission_factor"
    /\ result = "BadOrigin"
    /\ EmissionFactor # DefaultEmissionFactor

\* C5: no two stored records of one device carry the same block number.
C5_OneRecordPerDeviceAndBlock ==
    \A k1 \in DOMAIN Proofs, k2 \in DOMAIN Proofs :
        (k1[1] = k2[1] /\ Proofs[k1].block_number = Proofs[k2].block_number) => k1 = k2

C5_Witness ==
    /\ op = "submit_proof_unsigned"
    /\ result = "ProofAlreadyExists"
    /\ \E d \in Devices : Count(ProofCount, d) >= 2

\* C6: a submit_proof that passes the window, length and cap checks fails
\* with ProofAlreadyExists when a record of its device is stored at the
\* current height, whatever its hash and window, and otherwise succeeds and
\* adds one to the device's proof count; so a device's proof count is the
\* number of heights at which it has a proof.
C6_DuplicateAtHeight ==
    /\ \A e \in SingleEntries :
          LET out == submit_proof_call(Ledger, block_number, timestamp, Signed(1),
                                       e[1], e[2], e[3], e[4], e[5])
          IN  (WellFormed(e) /\ Count(ProofCount, e[1]) < MaxProofsPerDevice)
                => IF AcceptedAt(Ledger, e[1], block_number)
                   THEN out.result = "ProofAlreadyExists"
                   ELSE /\ out.result = "Ok"
                        /\ Count(out.store.ProofCount, e[1]) = Count(ProofCount, e[1]) + 1
    /\ \A d \in Devices :
          Count(ProofCount, d)
            = Cardinality({Proofs[k].block_number : k \in {x \in DOMAIN Proofs : x[1] = d}})

C6_Witness ==
    /\ op = "submit_proof"
    /\ result = "ProofAlreadyExists"
    /\ Count(ProofCount, DevA) = 1
    /\ Count(ProofCount, DevB) = 2

\* C7: a signed submit_batch_proofs call fails exactly when the batch is
\* empty (EmptyBatch) or longer than MaxBatchSize (BatchTooLarge), and then
\* changes nothing; every other batch succeeds.
C7_BatchFailsOnlyOnLength ==
    \A es \in Batches :
        LET out == submit_batch_proofs_call(Ledger, block_number, timestamp, Signed(1), es)
        IN  /\ (Len(es) = 0) => (out.result = "EmptyBatch" /\ out.store = Ledger)
            /\ (Len(es) > MaxBatchSize) => (out.result = "BatchTooLarge" /\ out.store = Ledger)
            /\ (Len(es) > 0 /\ Len(es) <= MaxBatchSize) => out.result = "Ok"

\* A batch of full size succeeded with every entry skipped.
C7_Witness ==
    /\ op = "submit_batch_proofs"
    /\ result = "Ok"
    /\ Len(events) = 1
    /\ LastEvent.proof_count = MaxBatchSize

\* The indices of the well-formed entries of es for device d.
EntriesFor(es, d) == {i \in 1..Len(es) : es[i][1] = d /\ WellFormed(es[i])}
Min(S) == CHOOSE x \in S : \A y \in S : x <= y

\* C8: a batch call stores at most one proof per device, and what it stores
\* for a device is the first of the batch's well-formed entries for it: the
\* later ones are skipped as duplicates at the current block.
C8_EarlierEntriesVisible ==
    \A es \in AdmissibleBatches :
        LET out == submit_batch_proofs_call(Ledger, block_number, timestamp, Signed(1), es)
        IN  \A d \in Devices :
              LET before == Count(ProofCount, d)
                  after == Count(out.store.ProofCount, d)
                  mine == EntriesFor(es, d)
              IN  /\ after <= before + 1
                  /\ (mine # {} /\ before < MaxProofsPerDevice
                        /\ ~AcceptedAt(Ledger, d, block_number))
                       => /\ after = before + 1
                          /\ out.store.Proofs[<<d, before>>]
                               = ProofMetadata(es[Min(mine)][2], block_number, timestamp,
                                               es[Min(mine)][3], es[Min(mine)][4],
                                               es[Min(mine)][5])
                          /\ <<d, before + 1>> \notin DOMAIN out.store.Proofs

\* The storage without anything of device d.
Without(S, d) ==
    [Proofs |-> [k \in {x \in DOMAIN S.Proofs : x[1] # d} |-> S.Proofs[k]],
     ProofsByBlock |->
        [k \in {x \in DOMAIN S.ProofsByBlock : x[2] # d} |-> S.ProofsByBlock[k]],
     ProofCount |-> [k \in (DOMAIN S.ProofCount) \ {d} |-> S.ProofCount[k]],
     TotalProofs |-> S.TotalProofs - Count(S.ProofCount, d),
     LatestProofBlock |->
        [k \in (DOMAIN S.LatestProofBlock) \ {d} |-> S.LatestProofBlock[k]]]

\* The last call was a batch of two well-formed entries for one device, made
\* when the device had no proof: the state is what that batch makes of the
\* state without the device's proof.
C8_Witness ==
    /\ op = "submit_batch_proofs"
    /\ result = "Ok"
    /\ \E es \in AdmissibleBatches :
          /\ Len(es) = 2
          /\ es[1][1] = es[2][1]
          /\ WellFormed(es[1]) /\ WellFormed(es[2])
          /\ Count(ProofCount, es[1][1]) = 1
          /\ LET out == submit_batch_proofs_call(Without(Ledger, es[1][1]), block_number,
                                                 timestamp, Signed(1), es)
             IN  out.store = Ledger /\ out.events = events

\* submit_proof on each entry of es from the i-th on, in order, failed calls
\* ignored; accepted counts the calls that succeeded.
RECURSIVE SubmitEach(_, _, _, _, _)
SubmitEach(acc, b, ts, es, i) ==
    IF i > Len(es) THEN acc
    ELSE LET out == submit_proof_call(acc.store, b, ts, Signed(1), es[i][1], es[i][2],
                                      es[i][3], es[i][4], es[i][5])
         IN  SubmitEach([store |-> out.store,
                         accepted |-> acc.accepted + (IF out.result = "Ok" THEN 1 ELSE 0)],
                        b, ts, es, i + 1)

\* C9: for every batch of admissible size, submit_batch_proofs leaves the
\* ledger that submit_proof on each entry in order leaves, and stores as
\* many proofs as there are entries whose submit_proof succeeds.
C9_BatchIsSequenceOfSingles ==
    \A es \in AdmissibleBatches :
        LET out == submit_batch_proofs_call(Ledger, block_number, timestamp, Signed(1), es)
            seq == SubmitEach([store |-> Ledger, accepted |-> 0], block_number, timestamp,
                              es, 1)
        IN  /\ out.result = "Ok"
            /\ out.store = seq.store
            /\ out.store.TotalProofs - TotalProofs = seq.accepted

\* A batch of two entries stored one and skipped one.
C9_Witness ==
    /\ op = "submit_batch_proofs"
    /\ result = "Ok"
    /\ Len(events) = 2
    /\ LastEvent.proof_count = 2
    /\ TotalProofs >= 2

\* C10: a submit_proof that returns an error leaves Proofs, ProofsByBlock,
\* ProofCount, TotalProofs and LatestProofBlock as they were.
C10_SubmitProofAllOrNothing ==
    [][(op' = "submit_proof" /\ result' # "Ok") => UNCHANGED ledgerVars]_vars

C10_Witness ==
    /\ op = "submit_proof"
    /\ result = "MaxProofsExceeded"
    /\ TotalProofs > MaxProofsPerDevice

\* C11: no device's proof count exceeds MaxProofsPerDevice, and no device has
\* more records than that.
C11_CountAtMostCap ==
    /\ \A d \in DOMAIN ProofCount : ProofCount[d] <= MaxProofsPerDevice
    /\ \A d \in Devices :
          Cardinality({k \in DOMAIN Proofs : k[1] = d}) <= MaxProofsPerDevice

\* Both devices are at the cap and an unsigned batch stored nothing.
C11_Witness ==
    /\ op = "submit_batch_proofs_unsigned"
    /\ result = "Ok"
    /\ LastEvent.proof_count = 0
    /\ \A d \in Devices : Count(ProofCount, d) = MaxProofsPerDevice

\* C12: every stored record has window_start < window_end.
C12_StoredWindowsOrdered ==
    \A k \in DOMAIN Proofs : Proofs[k].window_start < Proofs[k].window_end

\* A proof with an empty or inverted window was refused after others were
\* stored.
C12_Witness ==
    /\ op = "submit_proof_unsigned"
    /\ result = "InvalidTimeWindow"
    /\ TotalProofs >= 2

\* The device and the quantities of the claim a step makes, read from the
\* state before the step and the event it deposits.
ClaimedDevice == events'[1].device_id
Least(a, b) == IF a < b THEN a ELSE b

\* C13 as claimed: a successful claim awards ((p / 1000) * f / 1000 *
\* CreditsPerTonCO2) / 1000 credits, adds them to the balance and to
\* TotalCreditsIssued, adds (p / 1000) * f / 1000 to TotalCO2Avoided, adds
\* one to the issuance counter and empties the pending energy.
C13_ClaimFormulaExact ==
    [][(op' = "claim_credits" /\ result' = "Ok") =>
         LET d == ClaimedDevice
             p == EnergyAccumulated[d]
             co2_kg == ((p \div 1000) * EmissionFactor) \div 1000
             credits == (co2_kg * CreditsPerTonCO2) \div 1000
         IN  /\ CreditsBalance'[d] = CreditsBalance[d] + credits
             /\ TotalCreditsIssued' = TotalCreditsIssued + credits
             /\ TotalCO2Avoided' = TotalCO2Avoided + co2_kg
             /\ IssuanceCount'[d] = IssuanceCount[d] + 1
             /\ EnergyAccumulated'[d] = 0]_vars

\* C13 amended: the same with every product and every sum capped at the
\* largest value of its type; 10000 Wh under factor 1500 give 15 credits and
\* 15 kg.
C13_ClaimFormulaSaturating ==
    [][(op' = "claim_credits" /\ result' = "Ok") =>
         LET d == ClaimedDevice
             p == EnergyAccumulated[d]
             co2_kg == Least((p \div 1000) * EmissionFactor, U128Max) \div 1000
             credits == Least(co2_kg * CreditsPerTonCO2, U128Max) \div 1000
         IN  /\ CreditsBalance'[d] = Least(CreditsBalance[d] + credits, U128Max)
             /\ TotalCreditsIssued' = Least(TotalCreditsIssued + credits, U128Max)
             /\ TotalCO2Avoided' = Least(TotalCO2Avoided + co2_kg, U128Max)
             /\ IssuanceCount'[d] = Least(IssuanceCount[d] + 1, U32Max)
             /\ EnergyAccumulated'[d] = 0
             /\ events'[1].credits = credits
             /\ events'[1].co2_avoided_kg = co2_kg
             /\ (p = 10000 /\ EmissionFactor = 1500 /\ CreditsPerTonCO2 = 1000)
                  => (credits = 15 /\ co2_kg = 15)]_vars

\* A fresh device recorded 10000 Wh and claimed 15 credits for it.
C13_Witness ==
    /\ op = "claim_credits"
    /\ result = "Ok"
    /\ events[1].device_id = DevB
    /\ events[1].energy_wh = 10000
    /\ events[1].credits = 15
    /\ CreditsBalance[DevB] = 15
    /\ IssuanceCount[DevB] = 1
    /\ EnergyAccumulated[DevB] = 0
    /\ TotalEnergy[DevB] = 10000

\* The CO2 and the credits claim_credits computes for pending energy p.
ClaimCO2(p) == Least((p \div 1000) * EmissionFactor, U128Max) \div 1000
ClaimCredits(p) == Least(ClaimCO2(p) * CreditsPerTonCO2, U128Max) \div 1000

\* C14: a claim on pending energy of at least MinClaimableEnergy whose CO2 or
\* credits truncate to 0 fails with NoCreditsAvailable and changes nothing,
\* and a claim that succeeds awards at least one credit.
C14_NoZeroCreditClaim ==
    \A d \in Devices :
        LET p == EnergyAccumulated[d]
            out == claim_credits_call(Credits, Signed(1), d)
        IN  /\ (p >= MinClaimableEnergy /\ (ClaimCO2(p) = 0 \/ ClaimCredits(p) = 0))
                 => (out.result = "NoCreditsAvailable" /\ out.store = Credits
                       /\ out.events = <<>>)
            /\ out.result = "Ok"
                 => /\ out.events[1].credits >= 1
                    /\ ClaimCredits(p) >= 1
                    /\ out.store.IssuanceCount[d] > IssuanceCount[d]

\* Every device has 10000 Wh pending under a factor that truncates them to no
\* CO2, and a claim has failed.
C14_Witness ==
    /\ op = "claim_credits"
    /\ result = "NoCreditsAvailable"
    /\ \A d \in Devices :
          /\ EnergyAccumulated[d] >= MinClaimableEnergy
          /\ ClaimCO2(EnergyAccumulated[d]) = 0

\* C15: a device that has claimed, and for which no energy has been recorded
\* since, cannot claim: the call fails with NoCreditsAvailable, whatever has
\* happened to other devices and to the emission factor.
C15_SecondClaimFails ==
    \A d \in claimed :
        LET out == claim_credits_call(Credits, Signed(1), d)
        IN  out.result = "NoCreditsAvailable" /\ out.store = Credits

\* Both devices have claimed, the factor was changed, and a further claim
\* failed.
C15_Witness ==
    /\ op = "claim_credits"
    /\ result = "NoCreditsAvailable"
    /\ claimed = Devices
    /\ EmissionFactor # DefaultEmissionFactor

\* C16: a claim on no pending energy fails with NoCreditsAvailable, a claim
\* on pending energy above 0 and below MinClaimableEnergy fails with
\* EnergyBelowMinimum, and neither changes anything.
C16_PendingChecksInOrder ==
    /\ MinClaimableEnergy > 0
    /\ \A d \in Devices :
          LET p == EnergyAccumulated[d]
              out == claim_credits_call(Credits, Signed(1), d)
          IN  /\ (p = 0) => (out.result = "NoCreditsAvailable" /\ out.store = Credits
                               /\ out.events = <<>>)
              /\ (0 < p /\ p < MinClaimableEnergy)
                   => (out.result = "EnergyBelowMinimum" /\ out.store = Credits
                         /\ out.events = <<>>)

\* One device has energy below the minimum pending, the other none, and a
\* claim failed for the first.
C16_Witness ==
    /\ op = "claim_credits"
    /\ result = "EnergyBelowMinimum"
    /\ EnergyAccumulated[DevA] = 0
    /\ 0 < EnergyAccumulated[DevB]
    /\ EnergyAccumulated[DevB] < MinClaimableEnergy
    /\ DevA \in seen

\* C17: no step lowers any device's lifetime energy, and a successful claim
\* empties the device's pending energy and leaves every lifetime energy as it
\* was.
C17_LifetimeNeverDecreases ==
    [][/\ \A d \in Devices : TotalEnergy'[d] >= TotalEnergy[d]
       /\ (op' = "claim_credits" /\ result' = "Ok")
            => /\ EnergyAccumulated'[ClaimedDevice] = 0
               /\ EnergyAccumulated[ClaimedDevice] > 0
               /\ TotalEnergy' = TotalEnergy]_vars

\* A device has claimed all the energy it ever recorded, and still has it as
\* lifetime energy.
C17_Witness ==
    /\ op = "claim_credits"
    /\ result = "Ok"
    /\ events[1].device_id = DevA
    /\ EnergyAccumulated[DevA] = 0
    /\ TotalEnergy[DevA] > 0
    /\ TotalEnergy[DevA] = events[1].energy_wh

ProofIndexInputs == {"None", "Some"}

\* C18 as claimed: a signed record_energy with a device id of admissible
\* length succeeds for every energy and adds it to the device's pending and
\* lifetime energy; with an over-long id it fails with DeviceIdTooLong and
\* changes nothing.
C18_RecordAddsExactly ==
    \A d \in SingleDevices, e \in EnergyInputs, i \in ProofIndexInputs :
        LET out == record_energy_call(Credits, Signed(1), d, e, i)
        IN  IF Len(d) <= MaxDeviceIdLength
            THEN /\ out.result = "Ok"
                 /\ out.store.EnergyAccumulated[d] = EnergyAccumulated[d] + e
                 /\ out.store.TotalEnergy[d] = TotalEnergy[d] + e
            ELSE out.result = "DeviceIdTooLong" /\ out.store = Credits

\* C18 amended: the same, with each sum capped at the largest u128.
C18_RecordAddsSaturating ==
    \A d \in SingleDevices, e \in EnergyInputs, i \in ProofIndexInputs :
        LET out == record_energy_call(Credits, Signed(1), d, e, i)
        IN  IF Len(d) <= MaxDeviceIdLength
            THEN /\ out.result = "Ok"
                 /\ out.store.EnergyAccumulated[d]
                      = Least(EnergyAccumulated[d] + e, U128Max)
                 /\ out.store.TotalEnergy[d] = Least(TotalEnergy[d] + e, U128Max)
            ELSE out.result = "DeviceIdTooLong" /\ out.store = Credits
                   /\ out.events = <<>>

\* A record of no energy succeeded for a device whose pending energy is at
\* the cap.
C18_Witness ==
    /\ op = "record_energy"
    /\ result = "Ok"
    /\ events[1].energy_wh = 0
    /\ events[1].total_accumulated = U128Max

\* C19: transfer_credits with from = to fails with SameDeviceTransfer for every
\* amount, also one the balance does not cover; with from # to and
\* balance(from) < amount it fails with InsufficientCredits; both failures
\* leave the whole storage as it was and emit nothing.
C19_TransferErrorsInOrder ==
    \A from \in Devices, to \in Devices :
        \A amount \in Amounts(CreditsBalance[from]) :
            LET out == transfer_credits_call(Credits, Signed(1), from, to, amount)
            IN  /\ from = to =>
                      out.result = "SameDeviceTransfer" /\ out.store = Credits /\ out.events = <<>>
                /\ (from # to /\ CreditsBalance[from] < amount) =>
                      out.result = "InsufficientCredits" /\ out.store = Credits /\ out.events = <<>>

\* C19 happens: a transfer has just failed with InsufficientCredits while both
\* devices hold credits, and a same-device transfer of more than the balance
\* is refused from the same state.
C19_Witness ==
    /\ op = "transfer_credits" /\ result = "InsufficientCredits"
    /\ \A d \in Devices : CreditsBalance[d] > 0 /\ CreditsBalance[d] < U128Max
    /\ transfer_credits_call(Credits, Signed(1), DevA, DevA, CreditsBalance[DevA] + 1).result
         = "SameDeviceTransfer"

\* C20: withdraw_credits(actor, device, amount) succeeds exactly when
\* balance(device) >= amount; on success the device's balance goes down by
\* amount, the actor's account balance goes up by amount, and
\* TotalCreditsIssued and every other device and account balance stay as they
\* were; otherwise it fails with InsufficientCredits and changes nothing.
C20_WithdrawMovesAmount ==
    \A who \in Accounts, d \in Devices :
        \A amount \in Amounts(CreditsBalance[d]) :
            LET out == withdraw_credits_call(Credits, Signed(who), d, amount)
            IN  IF CreditsBalance[d] >= amount
                THEN /\ out.result = "Ok"
                     /\ out.store.CreditsBalance[d] = CreditsBalance[d] - amount
                     /\ out.store.AccountCredits[who] = AccountCredits[who] + amount
                     /\ out.store.TotalCreditsIssued = TotalCreditsIssued
                     /\ \A e \in Devices \ {d} :
                            out.store.CreditsBalance[e] = CreditsBalance[e]
                     /\ \A a \in Accounts \ {who} :
                            out.store.AccountCredits[a] = AccountCredits[a]
                ELSE /\ out.result = "InsufficientCredits"
                     /\ out.store = Credits
                     /\ out.events = <<>>

\* C20 fails here: both devices have been emptied into one account, the last
\* withdrawal was of LateCredits credits, and the account stands at the largest
\* balance although more than that was withdrawn.
C20_Witness ==
    /\ op = "withdraw_credits" /\ result = "Ok"
    /\ events[1].amount = LateCredits
    /\ AccountCredits[events[1].to_account] = U128Max
    /\ \A d \in Devices : CreditsBalance[d] = 0

DeviceBalanceSum(balances) == balances[DevA] + balances[DevB]

\* C21: value only moves from the device balances to the account balances: no
\* step lowers an account balance, and no step other than a claim_credits
\* raises the sum of the device balances.
C21_ValueOnlyLeavesDevices ==
    [][/\ \A a \in Accounts : AccountCredits'[a] >= AccountCredits[a]
       /\ op' # "claim_credits" =>
              DeviceBalanceSum(CreditsBalance') <= DeviceBalanceSum(CreditsBalance)]_vars

\* C21 happens: a withdrawal has moved credits into an account while the other
\* device still holds credits.
C21_Witness ==
    /\ op = "withdraw_credits" /\ result = "Ok"
    /\ events[1].amount > 0
    /\ AccountCredits[events[1].to_account] >= events[1].amount
    /\ \E d \in Devices : d # events[1].device_id /\ CreditsBalance[d] > 0

AllOrigins == NonRootOrigins \cup {RootOrigin}

\* C22 as claimed: set_emission_factor(0) fails with InvalidEmissionFactor
\* whoever calls it, and leaves EmissionFactor unchanged.
C22_ZeroAlwaysInvalidFactor ==
    \A o \in AllOrigins :
        LET out == set_emission_factor_call(Credits, o, 0) IN
        /\ out.result = "InvalidEmissionFactor"
        /\ out.store.EmissionFactor = EmissionFactor

\* C22, amended: set_emission_factor(0) always fails and changes nothing; the
\* error is InvalidEmissionFactor when the origin is root and BadOrigin when
\* it is not.
C22_ZeroAlwaysFails ==
    \A o \in AllOrigins :
        LET out == set_emission_factor_call(Credits, o, 0) IN
        /\ out.result = IF o = RootOrigin THEN "InvalidEmissionFactor" ELSE "BadOrigin"
        /\ out.store = Credits
        /\ out.events = <<>>

\* C22 happens: a set_emission_factor has failed with InvalidEmissionFactor
\* after an earlier call had moved the factor away from its default.
C22_Witness ==
    /\ op = "set_emission_factor" /\ result = "InvalidEmissionFactor"
    /\ EmissionFactor # DefaultEmissionFactor

\* The CO2 and the credits of pending energy p under emission factor f.
CO2At(f, p) == Least((p \div 1000) * f, U128Max) \div 1000
CreditsAt(f, p) == Least(CO2At(f, p) * CreditsPerTonCO2, U128Max) \div 1000

\* C23: a successful set_emission_factor changes EmissionFactor and nothing
\* else, no other operation changes EmissionFactor, and a claim made after the
\* change is computed with the new factor from the energy that was pending
\* when the factor changed.
C23_FactorInForceAtClaim ==
    /\ [](\A f \in FactorValues \ {0} :
            LET set == set_emission_factor_call(Credits, RootOrigin, f) IN
            /\ set.result = "Ok"
            /\ set.store = [Credits EXCEPT !.EmissionFactor = f]
            /\ \A d \in Devices :
                 LET out == claim_credits_call(set.store, Signed(1), d)
                     p == EnergyAccumulated[d]
                 IN  /\ out.result = "Ok" <=>
                            (p >= MinClaimableEnergy /\ CreditsAt(f, p) > 0)
                     /\ out.result = "Ok" =>
                            /\ out.events[1].co2_avoided_kg = CO2At(f, p)
                            /\ out.events[1].credits = CreditsAt(f, p)
                            /\ out.store.CreditsBalance[d]
                                 = Least(CreditsBalance[d] + CreditsAt(f, p), U128Max))
    /\ [][/\ EmissionFactor' # EmissionFactor =>
                (op' = "set_emission_factor" /\ result' = "Ok")
          /\ (op' = "set_emission_factor" /\ result' = "Ok") =>
                /\ EmissionFactor' = events'[1].new_factor
                /\ UNCHANGED <<EnergyAccumulated, TotalEnergy, CreditsBalance, AccountCredits,
                               TotalCreditsIssued, TotalCO2Avoided, IssuanceCount,
                               ActiveDeviceCount>>]_vars

\* C23 happens: the factor has just been changed while a device had energy
\* pending, and that device's claim now gives credits other than those the
\* earlier factor would have given.
C23_Witness ==
    /\ op = "set_emission_factor" /\ result = "Ok"
    /\ events[1].old_factor # events[1].new_factor
    /\ EmissionFactor = events[1].new_factor
    /\ \E d \in Devices :
         /\ claim_credits_call(Credits, Signed(1), d).result = "Ok"
         /\ CreditsAt(EmissionFactor, EnergyAccumulated[d])
              # CreditsAt(events[1].old_factor, EnergyAccumulated[d])

\* C24: whenever claim_credits succeeds for a device with pending energy p, the
\* credits it awards and adds are calculate_credits(p) of the state before the
\* claim, also when the preview was asked just before the claim; and a
\* calculate_credits query returns that value and changes no storage.
C24_PreviewMatchesClaim ==
    /\ [](\A d \in Devices :
            LET out == claim_credits_call(Credits, Signed(1), d)
                preview == calculate_credits(Credits, EnergyAccumulated[d])
            IN  out.result = "Ok" =>
                  /\ out.events[1].credits = preview
                  /\ out.store.CreditsBalance[d] = saturating_add(CreditsBalance[d], preview)
                  /\ out.store.TotalCreditsIssued = saturating_add(TotalCreditsIssued, preview))
    /\ [][/\ op' = "calculate_credits" =>
                /\ UNCHANGED <<ledgerVars, creditVars, block_number, timestamp>>
                /\ returned'[1].value = CreditsAt(EmissionFactor, returned'[1].args[1])
          /\ (op = "calculate_credits" /\ op' = "claim_credits" /\ result' = "Ok"
                /\ returned[1].args[1] = EnergyAccumulated[ClaimedDevice]) =>
                events'[1].credits = returned[1].value]_vars

\* C24 happens: under a factor other than the default, a preview has returned
\* credits for the pending energy of a device, and that device's claim
\* succeeds with the same credits.
C24_Witness ==
    /\ op = "calculate_credits"
    /\ EmissionFactor # DefaultEmissionFactor
    /\ returned[1].value > 0
    /\ \E d \in Devices :
         /\ EnergyAccumulated[d] = returned[1].args[1]
         /\ claim_credits_call(Credits, Signed(1), d).result = "Ok"
         /\ claim_credits_call(Credits, Signed(1), d).events[1].credits = returned[1].value

\* The indices of the stored records of device d whose window lies within
\* [start, end].
ContainedIn(d, start, end) ==
    {k[2] : k \in {x \in DOMAIN Proofs : /\ x[1] = d
                                         /\ Proofs[x].window_start >= start
                                         /\ Proofs[x].window_end <= end}}

\* R lists the records of device d at the indices I, each once, by rising index.
ListsInIndexOrder(R, d, I) ==
    /\ Len(R) = Cardinality(I)
    /\ \A n \in 1..Len(R) :
         \E i \in I : /\ Cardinality({j \in I : j < i}) = n - 1
                      /\ R[n] = Proofs[<<d, i>>]

\* C25: get_proofs_in_window(device, start, end) returns exactly the stored
\* records of the device with window_start >= start and window_end <= end, in
\* index order, both when asked in any state and in the value a query has
\* just returned.
C25_WindowQueryContainment ==
    /\ \A d \in Devices, w \in QueryWindows :
         ListsInIndexOrder(get_proofs_in_window(Ledger, d, w[1], w[2]), d,
                           ContainedIn(d, w[1], w[2]))
    /\ op = "get_proofs_in_window" =>
         ListsInIndexOrder(returned[1].value, returned[1].args[1],
                           ContainedIn(returned[1].args[1], returned[1].args[2],
                                       returned[1].args[3]))

\* C25 happens: a device has both windows stored, the range asked holds the
\* second and only overlaps the first, and the query returned the second alone.
C25_Witness ==
    /\ op = "get_proofs_in_window"
    /\ returned[1].args[2] = 1500 /\ returned[1].args[3] = 3000
    /\ Count(ProofCount, returned[1].args[1]) = 2
    /\ Len(returned[1].value) = 1
    /\ returned[1].value[1].window_start = 2000
    /\ \E k \in DOMAIN Proofs :
         k[1] = returned[1].args[1] /\ Proofs[k].window_start = 1000

\* A ProofSubmitted event for (d, h) is among the events of the step's call.
AcceptedNow(d, h) ==
    \E n \in 1..Len(events') :
        /\ events'[n].event = "ProofSubmitted"
        /\ events'[n].device_id = d
        /\ events'[n].proof_hash = h

\* C26: proof_exists(device, hash) is false at genesis, becomes true exactly in
\* the step whose call (of any of the four submission paths) accepts a proof
\* with that hash for that device, and stays true; so it is true exactly for
\* the hashes stored for the device itself.  The query returns that value,
\* verify_proof reports it in its event, and neither changes storage.
C26_ProofExistsIffAccepted ==
    /\ [](/\ op = "genesis" =>
               \A d \in Devices, h \in QueryHashes : ~proof_exists(Ledger, d, h)
          /\ \A d \in Devices, h \in QueryHashes :
               proof_exists(Ledger, d, h) <=>
                   \E k \in DOMAIN Proofs : k[1] = d /\ Proofs[k].proof_hash = h)
    /\ [][/\ \A d \in Devices, h \in QueryHashes :
               proof_exists(Ledger', d, h) <=>
                   (proof_exists(Ledger, d, h) \/ AcceptedNow(d, h))
          /\ op' = "proof_exists" =>
               /\ UNCHANGED <<ledgerVars, creditVars, block_number, timestamp>>
               /\ returned'[1].value
                    = (\E k \in DOMAIN Proofs :
                          /\ k[1] = returned'[1].args[1]
                          /\ Proofs[k].proof_hash = returned'[1].args[2])
          /\ (op' = "verify_proof" /\ result' = "Ok") =>
               /\ UNCHANGED <<ledgerVars, creditVars, block_number, timestamp>>
               /\ events'[1].exists
                    = (\E k \in DOMAIN Proofs :
                          /\ k[1] = events'[1].device_id
                          /\ Proofs[k].proof_hash = events'[1].proof_hash)]_vars

\* C26 happens: the query has answered false for a device that has a proof of
\* its own stored, about a hash that is stored for the other device only.
C26_Witness ==
    /\ op = "proof_exists"
    /\ returned[1].value = FALSE
    /\ Count(ProofCount, returned[1].args[1]) > 0
    /\ \E k \in DOMAIN Proofs :
         k[1] # returned[1].args[1] /\ Proofs[k].proof_hash = returned[1].args[2]

\* C27: the proof store is append-only: every record stored before a step is
\* stored, unchanged, at the same device and index after it, and no device's
\* proof count goes down.
C27_ProofStoreAppendOnly ==
    [][/\ \A k \in DOMAIN Proofs : k \in DOMAIN Proofs' /\ Proofs'[k] = Proofs[k]
       /\ \A d \in Devices : Count(ProofCount', d) >= Count(ProofCount, d)]_vars

\* C27 happens: a batch has just stored a device's second record, in a later
\* block than the first, and the first is still in its slot.
C27_Witness ==
    /\ op \in {"submit_batch_proofs", "submit_batch_proofs_unsigned"} /\ result = "Ok"
    /\ \E n \in 1..Len(events) :
         /\ events[n].event = "ProofSubmitted"
         /\ events[n].proof_index = 1
         /\ <<events[n].device_id, 0>> \in DOMAIN Proofs
         /\ Proofs[<<events[n].device_id, 0>>].block_number < block_number
         /\ Count(ProofCount, events[n].device_id) = 2

\* C28: LatestProofBlock has no entry for a device exactly when the device has
\* no stored proof, and otherwise holds the block number of the device's
\* record at index proof_count - 1.
C28_LatestBlockIsLastRecord ==
    \A d \in Devices :
        /\ d \notin DOMAIN LatestProofBlock <=> Count(ProofCount, d) = 0
        /\ d \notin DOMAIN LatestProofBlock <=> ~(\E k \in DOMAIN Proofs : k[1] = d)
        /\ Count(ProofCount, d) > 0 =>
             /\ <<d, Count(ProofCount, d) - 1>> \in DOMAIN Proofs
             /\ LatestProofBlock[d] = Proofs[<<d, Count(ProofCount, d) - 1>>].block_number

\* C28 happens: one device has two records from different blocks and its
\* latest block is the second record's, while the other device has no proof
\* and no latest block.
C28_Witness ==
    /\ op \in {"submit_proof", "submit_proof_unsigned"} /\ result = "Ok"
    /\ \E d \in Devices :
         /\ Count(ProofCount, d) = 2
         /\ LatestProofBlock[d] = Proofs[<<d, 1>>].block_number
         /\ LatestProofBlock[d] > Proofs[<<d, 0>>].block_number
    /\ \E d \in Devices : d \notin DOMAIN LatestProofBlock /\ Count(ProofCount, d) = 0

\* What C29 requires of a single unsigned submission for it to be admitted.
Admissible(source, e) ==
    /\ source \in {"Local", "InBlock"}
    /\ Len(e[1]) <= MaxDeviceIdLength
    /\ Len(e[2]) <= MaxProofLength
    /\ e[4] < e[5]

\* C29: validate_unsigned accepts a single unsigned proof submission exactly
\* when the source is Local or InBlock, the device id and the proof hash are
\* within their length bounds and window_start < window_end, both when asked
\* in any state and in the verdict a query has just returned.
C29_AdmitsExactlyWellFormed ==
    /\ \A source \in TransactionSources, e \in SingleEntries :
         validate_unsigned(Ledger, block_number, source, SingleCall(e)).valid
             <=> Admissible(source, e)
    /\ (op = "validate_unsigned" /\ returned[1].args[2].call = "submit_proof_unsigned") =>
         LET call == returned[1].args[2]
         IN  returned[1].value.valid
                <=> Admissible(returned[1].args[1],
                               Entry(call.device_id, call.proof_hash, call.record_count,
                                     call.window_start, call.window_end))

\* C29 happens: with proofs already in the ledger, a single submission from
\* an InBlock source has been admitted, and the same submission from an
\* External source is turned away.
C29_Witness ==
    /\ op = "validate_unsigned"
    /\ returned[1].args[1] = "InBlock"
    /\ returned[1].args[2].call = "submit_proof_unsigned"
    /\ returned[1].value.valid
    /\ TotalProofs > 0
    /\ ~validate_unsigned(Ledger, block_number, "External", returned[1].args[2]).valid

\* What the ledger answers when the single submission of call is applied now.
AppliedNow(call) ==
    submit_proof_unsigned_call(Ledger, block_number, timestamp, NoneOrigin,
                               call.device_id, call.proof_hash, call.record_count,
                               call.window_start, call.window_end).result

GenesisLedger ==
    [Proofs |-> EmptyMap, ProofsByBlock |-> EmptyMap, ProofCount |-> EmptyMap,
     TotalProofs |-> 0, LatestProofBlock |-> EmptyMap]

AdmitInputs ==
    {SingleCall(e) : e \in SingleEntries}
       \cup {BatchCall(es) : es \in {<<>>} \cup QueryBatches \cup OverlongBatches}
       \cup {OtherCall}

\* C30: validate_unsigned is a function of (source, call) alone: in every
\* reachable ledger state and at every height its verdict, provides tag
\* included, is the one it gives at genesis; it admits a single submission
\* that the ledger refuses when applied now, as a duplicate at the current
\* block or for a device at its cap; and asking it changes no storage.
C30_AdmissionIgnoresLedger ==
    /\ [](/\ \A source \in TransactionSources, call \in AdmitInputs :
               validate_unsigned(Ledger, block_number, source, call)
                   = validate_unsigned(GenesisLedger, 0, source, call)
          /\ \A e \in QueryEntries :
               AppliedNow(SingleCall(e)) \in {"ProofAlreadyExists", "MaxProofsExceeded"} =>
                   \A source \in {"Local", "InBlock"} :
                       validate_unsigned(Ledger, block_number, source, SingleCall(e)).valid)
    /\ [][op' = "validate_unsigned" =>
             UNCHANGED <<ledgerVars, creditVars, block_number, timestamp>>]_vars

\* C30 happens: a single submission has just been admitted although its
\* device is at the proof cap, and another admissible submission would be
\* refused as a duplicate at this block.
C30_Witness ==
    /\ op = "validate_unsigned"
    /\ returned[1].args[2].call = "submit_proof_unsigned"
    /\ returned[1].value.valid
    /\ returned[1].value.provides
         = ValidTransaction("TelemetryProof", <<returned[1].args[2].device_id,
                                                returned[1].args[2].proof_hash>>).provides
    /\ AppliedNow(returned[1].args[2]) = "MaxProofsExceeded"
    /\ \E e \in QueryEntries :
         /\ AppliedNow(SingleCall(e)) = "ProofAlreadyExists"
         /\ validate_unsigned(Ledger, block_number, "Local", SingleCall(e)).valid

\* Batches for the tag: every batch of up to MaxBatchSize entries over three
\* entries, two of which share device id and hash and differ in every other
\* field, and one-entry batches with an over-long id, an over-long hash, and
\* two whose id and hash split the same bytes at different places.
TagBatches ==
    { es \in SeqsUpTo({ Entry(DevA, HashX, 10, 1000, 2000),
                        Entry(DevA, HashX, 12, 5000, 4000),
                        Entry(DevB, HashY, 11, 2000, 3000) }, MaxBatchSize) : Len(es) > 0 }
       \cup { <<Entry(DevLong, HashX, 10, 1000, 2000)>>,
              <<Entry(DevB, HashLong, 10, 1000, 2000)>>,
              <<Entry(<<65>>, <<66, 120>>, 10, 1000, 2000)>>,
              <<Entry(<<65, 66>>, <<120>>, 10, 1000, 2000)>> }

SameEnds(b1, b2) == b1[1][1] = b2[1][1] /\ b1[Len(b1)][2] = b2[Len(b2)][2]

\* C31: a batch submission that validate_unsigned has just accepted carries the
\* same provides tag as another accepted batch exactly when the two agree on
\* the first entry's device id and on the last entry's proof hash, whatever
\* their lengths, middle entries and other fields.
C31_BatchTagFromEnds ==
    (op = "validate_unsigned" /\ returned[1].args[2].call = "submit_batch_proofs_unsigned"
        /\ returned[1].args[1] \in {"Local", "InBlock"})
    => /\ returned[1].value.valid
       /\ \A b \in TagBatches, source \in {"Local", "InBlock"} :
             LET v == validate_unsigned(Ledger, block_number, source, BatchCall(b))
             IN  /\ v.valid
                 /\ v.provides = returned[1].value.provides
                       <=> SameEnds(b, returned[1].args[2].proofs)

C31_Witness ==
    /\ op = "validate_unsigned"
    /\ returned[1].args[2].call = "submit_batch_proofs_unsigned"
    /\ returned[1].value.valid
    /\ Len(returned[1].args[2].proofs) = 1
    /\ \E b \in TagBatches :
         /\ Len(b) = MaxBatchSize
         /\ b[2][1] # returned[1].args[2].proofs[1][1]
         /\ SameEnds(b, returned[1].args[2].proofs)
         /\ validate_unsigned(Ledger, block_number, "Local", BatchCall(b)).provides
              = returned[1].value.provides

InRange(n) == n \in 0..U128Max

\* C32: energy and balance arithmetic saturates and never wraps.  A signed
\* record_energy whose sum with the pending or the lifetime energy exceeds
\* the largest u128 succeeds and stores the largest u128; in every reachable
\* state every pending energy, lifetime energy, device balance and account
\* balance lies in 0..U128Max; and no transfer_credits or withdraw_credits
\* leaves a balance outside that range.
C32_SaturatesNeverWraps ==
    /\ \A d \in Devices :
          /\ InRange(EnergyAccumulated[d]) /\ InRange(TotalEnergy[d])
          /\ InRange(CreditsBalance[d])
    /\ \A a \in Accounts : InRange(AccountCredits[a])
    /\ \A d \in Devices, e \in EnergyInputs :
          LET out == record_energy_call(Credits, Signed(1), d, e, "None")
          IN  /\ out.result = "Ok"
              /\ EnergyAccumulated[d] + e > U128Max
                    => out.store.EnergyAccumulated[d] = U128Max
              /\ TotalEnergy[d] + e > U128Max => out.store.TotalEnergy[d] = U128Max
    /\ \A from \in Devices, to \in Devices :
          \A amount \in Amounts(CreditsBalance[from]) :
             LET out == transfer_credits_call(Credits, Signed(1), from, to, amount)
             IN  /\ \A d \in Devices : InRange(out.store.CreditsBalance[d])
                 /\ out.result = "Ok"
                       => out.store.CreditsBalance[from] = CreditsBalance[from] - amount
    /\ \A d \in Devices, who \in Accounts :
          \A amount \in Amounts(CreditsBalance[d]) :
             LET out == withdraw_credits_call(Credits, Signed(who), d, amount)
             IN  /\ InRange(out.store.CreditsBalance[d])
                 /\ \A a \in Accounts : InRange(out.store.AccountCredits[a])
                 /\ out.result = "Ok"
                       => out.store.CreditsBalance[d] = CreditsBalance[d] - amount

\* A record of 500 Wh succeeded for a device whose pending energy was already
\* at the cap, and the pending energy stayed there.
C32_Witness ==
    /\ op = "record_energy"
    /\ result = "Ok"
    /\ events[1].energy_wh = 500
    /\ events[1].total_accumulated = U128Max
    /\ EnergyAccumulated[events[1].device_id] = U128Max

\* The rules of submit_proof a submission breaks in the current state, as the
\* positions of the rules in the claimed order.
BrokenRules(e) ==
    { i \in 1..5 :
        \/ i = 1 /\ e[4] >= e[5]
        \/ i = 2 /\ Len(e[1]) > MaxDeviceIdLength
        \/ i = 3 /\ Len(e[2]) > MaxProofLength
        \/ i = 4 /\ Count(ProofCount, e[1]) >= MaxProofsPerDevice
        \/ i = 5 /\ AcceptedAt(Ledger, e[1], block_number) }
RuleErrors ==
    <<"InvalidTimeWindow", "DeviceIdTooLong", "ProofTooLong", "MaxProofsExceeded",
      "ProofAlreadyExists">>
\* Submissions that break one rule, several rules, or none.
OrderEntries ==
    SingleEntries
      \cup { Entry(DevLong, HashX, 10, 2000, 2000), Entry(DevA, HashLong, 10, 3000, 2000),
             Entry(DevLong, HashLong, 10, 1000, 2000), Entry(DevA, HashLong, 10, 1000, 2000) }

\* C33: a signed submit_proof reports the first rule it breaks in the order
\* time window, device id length, proof hash length, per-device cap, duplicate
\* at the current block, and succeeds when it breaks none.
C33_FirstBrokenRuleReported ==
    \A e \in OrderEntries :
        LET out == submit_proof_call(Ledger, block_number, timestamp, Signed(1),
                                     e[1], e[2], e[3], e[4], e[5])
            broken == BrokenRules(e)
        IN  IF broken = {} THEN out.result = "Ok"
            ELSE /\ out.result = RuleErrors[Min(broken)]
                 /\ out.store = Ledger
                 /\ out.events = <<>>

\* A submit_proof was refused for the cap, and every device at the cap has a
\* record at the current block, so the refused submission broke the cap rule
\* and the duplicate rule at once.
C33_Witness ==
    /\ op = "submit_proof"
    /\ result = "MaxProofsExceeded"
    /\ \E d \in Devices : Count(ProofCount, d) >= MaxProofsPerDevice
    /\ \A d \in Devices :
          Count(ProofCount, d) >= MaxProofsPerDevice => AcceptedAt(Ledger, d, block_number)

\* Pending energies and emission factors for claim_credits: small ones, and
\* ones whose product in kWh exceeds the largest u128.
OverflowEnergies == {MinClaimableEnergy, 10000, U128Max - 1, U128Max}
OverflowFactors == {1, 90, DefaultEmissionFactor, U32Max}

\* C34: claim_credits never returns Overflow, whatever the pending energy and
\* the emission factor; when the product of the energy in kWh and the factor
\* exceeds the largest u128 the claim succeeds with the capped product: the
\* CO2 is U128Max / 1000 and the credits follow from it.
C34_ClaimNeverOverflows ==
    \A d \in Devices :
       \A p \in OverflowEnergies \cup {EnergyAccumulated[d]}, f \in OverflowFactors \cup {EmissionFactor} :
          LET K == [Credits EXCEPT !.EnergyAccumulated = Put(@, d, p), !.EmissionFactor = f]
              out == claim_credits_call(K, Signed(1), d)
          IN  /\ out.result # "Overflow"
              /\ (p \div 1000) * f > U128Max
                    => /\ out.result = "Ok"
                       /\ out.events[1].co2_avoided_kg = U128Max \div 1000
                       /\ out.events[1].credits
                            = Least((U128Max \div 1000) * CreditsPerTonCO2, U128Max) \div 1000
                       /\ out.store.EnergyAccumulated[d] = 0

\* A claim succeeded on pending energy whose product with the factor in force
\* exceeds the largest u128, and it awarded the capped amount.
C34_Witness ==
    /\ op = "claim_credits"
    /\ result = "Ok"
    /\ (events[1].energy_wh \div 1000) * EmissionFactor > U128Max
    /\ events[1].co2_avoided_kg = U128Max \div 1000
    /\ events[1].credits > 0

AccountBalanceSum(balances) == balances[1] + balances[2]
\* All credits held, by devices and by accounts.
CreditsHeld == DeviceBalanceSum(CreditsBalance) + AccountBalanceSum(AccountCredits)
\* The step just taken capped one of its additions to a balance or to the
\* total of credits issued.
BalanceAdditionSaturates ==
    /\ result' = "Ok"
    /\ \/ /\ op' = "claim_credits"
          /\ \/ CreditsBalance[events'[1].device_id] + events'[1].credits > U128Max
             \/ TotalCreditsIssued + events'[1].credits > U128Max
       \/ /\ op' = "transfer_credits"
          /\ CreditsBalance[events'[1].to_device] + events'[1].amount > U128Max
       \/ /\ op' = "withdraw_credits"
          /\ AccountCredits[events'[1].to_account] + events'[1].amount > U128Max

\* C35: TotalCreditsIssued equals the credits held by all devices and
\* accounts in the first state, and every step that caps no addition keeps
\* the two equal; only a successful claim_credits changes the total, and a
\* transfer or withdrawal that caps no addition leaves the credits held as
\* they were.
C35_IssuedEqualsHeld ==
    /\ TotalCreditsIssued = CreditsHeld
    /\ [][(TotalCreditsIssued = CreditsHeld /\ ~BalanceAdditionSaturates)
             => TotalCreditsIssued' = CreditsHeld']_vars
    /\ [][~(op' = "claim_credits" /\ result' = "Ok")
             => TotalCreditsIssued' = TotalCreditsIssued]_vars
    /\ [][(op' \in {"transfer_credits", "withdraw_credits"} /\ ~BalanceAdditionSaturates)
             => CreditsHeld' = CreditsHeld]_vars

\* Credits issued late in the engine's life have been transferred, an account
\* holds withdrawn credits, and the total issued is what devices and accounts
\* hold.
C35_Witness ==
    /\ op = "transfer_credits" /\ result = "Ok"
    /\ events[1].amount > 0
    /\ \E a \in Accounts : AccountCredits[a] > 0
    /\ TotalCreditsIssued > LateRounds * LateCredits
    /\ TotalCreditsIssued = CreditsHeld

\* The energy of device d that its claims have consumed, if no addition was
\* capped: the lifetime energy less the pending energy.
Consumed(d) == TotalEnergy[d] - EnergyAccumulated[d]
\* The step just taken is a record_energy for d that capped one of its sums.
EnergyAdditionSaturates(d) ==
    /\ op' = "record_energy" /\ result' = "Ok"
    /\ events'[1].device_id = d
    /\ \/ EnergyAccumulated[d] + events'[1].energy_wh > U128Max
       \/ TotalEnergy[d] + events'[1].energy_wh > U128Max
\* The step just taken is a successful claim of device d.
ClaimOf(d) == op' = "claim_credits" /\ result' = "Ok" /\ events'[1].device_id = d

\* C36: a device's lifetime energy is its pending energy plus the energy its
\* successful claims consumed, as long as no addition is capped.  In the
\* first state nothing is consumed; a successful claim consumes the whole
\* pending energy, reports it as energy_wh and adds it to the consumed
\* energy; every other step that caps no addition leaves the consumed energy
\* as it was.
C36_LifetimeIsPendingPlusConsumed ==
    /\ \A d \in Devices : Consumed(d) = 0
    /\ [][\A d \in Devices :
             IF ClaimOf(d)
             THEN /\ events'[1].energy_wh = EnergyAccumulated[d]
                  /\ EnergyAccumulated'[d] = 0
                  /\ Consumed(d)' = Consumed(d) + events'[1].energy_wh
             ELSE ~EnergyAdditionSaturates(d) => Consumed(d)' = Consumed(d)]_vars

\* A claim consumed 10500 Wh, the 500 Wh that earn no credit included, and the
\* device's lifetime energy is that amount.
C36_Witness ==
    /\ op = "claim_credits" /\ result = "Ok"
    /\ events[1].energy_wh = 10500
    /\ EnergyAccumulated[events[1].device_id] = 0
    /\ TotalEnergy[events[1].device_id] = 10500

RECURSIVE SumOver(_, _)
\* The sum of the counts of the devices in D.
SumOver(counts, D) ==
    IF D = {} THEN 0
    ELSE LET d == CHOOSE x \in D : TRUE IN counts[d] + SumOver(counts, D \ {d})

\* C37: the global proof total is the sum of the per-device proof counts,
\* after any mix of single and batch submissions, accepted, failed or
\* skipped.
C37_TotalIsSumOfCounts ==
    TotalProofs = SumOver(ProofCount, DOMAIN ProofCount)

\* An unsigned submission has just been refused as a duplicate while three
\* proofs are stored, one of device A and two of device B.
C37_Witness ==
    /\ op = "submit_proof_unsigned"
    /\ result = "ProofAlreadyExists"
    /\ TotalProofs = 3
    /\ Count(ProofCount, DevA) = 1
    /\ Count(ProofCount, DevB) = 2

\* The indices at which records of device d are stored.
StoredIndices(d) == {k[2] : k \in {x \in DOMAIN Proofs : x[1] = d}}

\* C38: the records of each device occupy exactly the indices 0 .. count - 1,
\* so that get_device_proofs returns count records, the one at index i in
\* place i + 1; and every stored proof is announced with the index that was
\* the device's count before the call, which then goes up by one.
C38_IndicesContiguous ==
    /\ [](\A d \in Devices :
            /\ StoredIndices(d) = 0..(Count(ProofCount, d) - 1)
            /\ Len(get_device_proofs(Ledger, d)) = Count(ProofCount, d)
            /\ \A i \in StoredIndices(d) :
                  get_device_proofs(Ledger, d)[i + 1] = Proofs[<<d, i>>])
    /\ [][\A n \in 1..Len(events') :
             events'[n].event = "ProofSubmitted"
               => /\ events'[n].proof_index = Count(ProofCount, events'[n].device_id)
                  /\ <<events'[n].device_id, events'[n].proof_index>> \notin DOMAIN Proofs
                  /\ <<events'[n].device_id, events'[n].proof_index>> \in DOMAIN Proofs'
                  /\ Count(ProofCount', events'[n].device_id)
                       = events'[n].proof_index + 1]_vars

\* One batch has stored the second record of one device at index 1 and the
\* first record of the other at index 0.
C38_Witness ==
    /\ op \in {"submit_batch_proofs", "submit_batch_proofs_unsigned"} /\ result = "Ok"
    /\ \E m \in 1..Len(events), n \in 1..Len(events) :
         /\ events[m].event = "ProofSubmitted" /\ events[n].event = "ProofSubmitted"
         /\ events[m].proof_index = 1 /\ events[n].proof_index = 0
         /\ StoredIndices(events[m].device_id) = {0, 1}
         /\ StoredIndices(events[n].device_id) = {0}

\* C39: a batch that validate_unsigned admits is applied by
\* submit_batch_proofs_unsigned without a call-level error in every ledger
\* state: the call returns Ok and ends with its summary event, whatever
\* becomes of the entries.
C39_AdmittedBatchApplies ==
    \A source \in TransactionSources, es \in Batches \cup TagBatches :
        validate_unsigned(Ledger, block_number, source, BatchCall(es)).valid
          => LET out == submit_batch_proofs_unsigned_call(Ledger, block_number, timestamp,
                                                          NoneOrigin, es)
             IN  /\ out.result = "Ok"
                 /\ out.events[Len(out.events)].event = "UnsignedBatchProofsSubmitted"

\* The pool has just admitted a batch of which the ledger would now skip
\* every entry, and the call applying it still returns Ok.
C39_Witness ==
    /\ op = "validate_unsigned"
    /\ returned[1].args[2].call = "submit_batch_proofs_unsigned"
    /\ returned[1].value.valid
    /\ LET out == submit_batch_proofs_unsigned_call(Ledger, block_number, timestamp,
                                                    NoneOrigin, returned[1].args[2].proofs)
       IN  out.result = "Ok" /\ out.store = Ledger /\ TotalProofs > 0

AtCap(d) == Count(ProofCount, d) >= MaxProofsPerDevice
\* The records of device d in store S.
RecordsOf(S, d) == {<<k, S.Proofs[k]>> : k \in {x \in DOMAIN S.Proofs : x[1] = d}}
\* Batches for a device at the cap: one or two entries of the two devices, and
\* the batches of full length.
CapBatches ==
    { es \in SeqsUpTo({ Entry(DevA, HashX, 10, 1000, 2000),
                        Entry(DevA, HashY, 10, 2000, 3000),
                        Entry(DevB, HashX, 10, 1000, 2000) }, MaxBatchSize - 1) : Len(es) > 0 }
       \cup FullBatches
\* No event announces a proof of device d.
NoProofOf(evs, d) ==
    \A n \in 1..Len(evs) : evs[n].event = "ProofSubmitted" => evs[n].device_id # d

\* C40: once a device's count has reached MaxProofsPerDevice it stays there
\* and the device's records stay as they are, in every later step; in every
\* state with the device at the cap, a single submission for it, signed or
\* unsigned, is refused (with MaxProofsExceeded when its window and lengths
\* are in order) and changes nothing, and a batch stores no entry for it.
C40_CapIsFinal ==
    /\ [](\A d \in Devices : AtCap(d) =>
            /\ \A e \in {x \in SingleEntries : x[1] = d} :
                  LET signed == submit_proof_call(Ledger, block_number, timestamp,
                                                  Signed(1), e[1], e[2], e[3], e[4], e[5])
                      unsigned == submit_proof_unsigned_call(Ledger, block_number, timestamp,
                                                  NoneOrigin, e[1], e[2], e[3], e[4], e[5])
                  IN  /\ signed.result # "Ok" /\ signed.store = Ledger
                      /\ unsigned.result # "Ok" /\ unsigned.store = Ledger
                      /\ WellFormed(e) => /\ signed.result = "MaxProofsExceeded"
                                          /\ unsigned.result = "MaxProofsExceeded"
            /\ \A es \in CapBatches :
                  LET signed == submit_batch_proofs_call(Ledger, block_number, timestamp,
                                                        Signed(1), es)
                      unsigned == submit_batch_proofs_unsigned_call(Ledger, block_number,
                                                        timestamp, NoneOrigin, es)
                  IN  /\ RecordsOf(signed.store, d) = RecordsOf(Ledger, d)
                      /\ RecordsOf(unsigned.store, d) = RecordsOf(Ledger, d)
                      /\ Count(signed.store.ProofCount, d) = Count(ProofCount, d)
                      /\ Count(unsigned.store.ProofCount, d) = Count(ProofCount, d)
                      /\ NoProofOf(signed.events, d) /\ NoProofOf(unsigned.events, d))
    /\ [][\A d \in Devices : AtCap(d) =>
             /\ Count(ProofCount', d) = Count(ProofCount, d)
             /\ {k \in DOMAIN Proofs' : k[1] = d} = {k \in DOMAIN Proofs : k[1] = d}
             /\ NoProofOf(events', d)]_vars

\* A submission was refused for the cap in a block in which no device at the
\* cap has a record: the cap alone refused it, after the block in which the
\* count reached it.
C40_Witness ==
    /\ op \in {"submit_proof", "submit_proof_unsigned"}
    /\ result = "MaxProofsExceeded"
    /\ \E d \in Devices : AtCap(d)
    /\ \A d \in Devices : AtCap(d) => ~AcceptedAt(Ledger, d, block_number)

====
